---- MODULE Spec2Model ----
(***************************************************************************)
(* Verification model of the BSI Grundschutz OSCAL enrichment jobs:        *)
(*   quality_control/main.py, g2r_oscal/main.py,                           *)
(*   oscal_components_from_grundschutz/main.py, g2oscal/gemini_utils.py,   *)
(*   add-practice/main.py and translate_oscal/main.py.                     *)
(*                                                                         *)
(* Every job is a one-shot batch run.  The variables below are shared by   *)
(* several specifications, one per job family; a specification leaves the  *)
(* variables of the other jobs at their idle values.                       *)
(***************************************************************************)
EXTENDS Integers, Sequences, FiniteSets, TLC

VARIABLES
    prog,        \* which job is running: "qc", "g2r", "ocg", "g2o", "batch", "ap", "tr"
    pc,          \* per dispatch unit: position in its coroutine / thread
    attempt,     \* per dispatch unit: loop variable of its retry loop
    permits,     \* free permits of the job's semaphore (Semaphore._value)
    cid,         \* quality_control: the control id a process_control task was created for
    result,      \* quality_control: gemini_result held by a task between call and merge
    lockHolder,  \* quality_control: the task that holds catalog_lock, or NoUnit
    qcControls,  \* quality_control: per baustein, the ids of its "controls" list, in order
    proseQs,     \* quality_control: per part id, the value of its "prose_qs" field (0: absent)
    awaiting,    \* g2oscal: per unit, the calls its coroutine is awaiting
    orphans,     \* g2oscal: per unit, calls still running that gather() no longer awaits
    batKind,     \* batcher: which function is applied
    batInput,    \* batcher: the input sequence (per item, the length its estimate is taken from)
    batLimit,    \* batcher: TOKEN_LIMIT_PER_BATCH in force
    batOut,      \* batcher: the returned list of batches
    batDone,     \* batcher: the function has returned
    apProps,     \* add-practice: per control, its "props" list (empty also when the key is absent)
    apClass,     \* add-practice: per control, its "class"
    apResults,   \* add-practice: the flattened results list of the current run
    apPhase,     \* add-practice: "idle", "generated" (results gathered), "merged"
    apRuns,      \* add-practice: number of runs made on the catalog so far
    trTestMode,  \* translate: TEST_MODE
    trPhase,     \* translate: position of main(): "start", "loaded", "translating", "done"
    trTranslations, \* translate: per unique text, item['translations'] (language -> status)
    trMissing,   \* translate: per unique text, item['missing_languages']
    trSelected,  \* translate: texts_to_translate_in_this_run
    trBatches,   \* translate: the batches created from trSelected
    trRequests,  \* translate: the translate_batch calls whose prompt is built, in order
    trProgress,  \* translate: the progress file, per unique text (language -> status)
    rtFn,        \* retry loop: the function whose loop runs
    rtPc,        \* retry loop: "calling", "generating", "sleeping", "returned"
    rtAttempt,   \* retry loop: the loop variable attempt
    rtCalls,     \* retry loop: generation calls made so far
    rtFails,     \* retry loop: how each failed pass of the loop failed, in order
    rtDelays,    \* retry loop: the delays slept so far, before jitter, in order
    rtReturn,    \* retry loop: "pending", "value" (a result is returned) or "None"
    rtEnumHasOK, \* retry loop: the installed SDK defines FinishReason.OK
    mgKind,      \* merge: the merge function that is applied
    mgCatalog,   \* merge: the catalog (last-modified, bausteine per main group, prose_qs per part)
    mgInput,     \* merge: the results, stubs or enriched_prose handed to the merge
    mgOnce,      \* merge: the catalog as the first application left it
    mgRuns,      \* merge: number of applications so far
    mgClock,     \* merge: datetime.now()
    runResults,  \* g2r_oscal, g2oscal: per unit, what its task returned to gather()
    runPhase,    \* g2r_oscal, g2oscal: "dispatching" or "persisted"
    runOutput,   \* g2r_oscal, g2oscal: the uploaded final catalog
    treeFn,      \* tree functions: the function or pipeline applied to the tree
    treeSrc,     \* tree functions: the parsed JSON document (original_data, catalog)
    treePc,      \* tree functions: "loaded", "unique", "translated", "done"
    treeMap,     \* tree functions: full_translation_map
    treeUnique,  \* tree functions: unique_texts_list
    treeOut,     \* tree functions: the returned value (tree, list of nodes)
    treeRaised,  \* tree functions: the exception that left the function, or "none"
    lcJob,       \* run: the job whose process runs
    lcEnv,       \* run: "ok", "missing_var" (required variable unset), "init_failure"
    lcSource,    \* run: the source catalog blob: "ok", "absent", "unparsable"
    lcProgress,  \* run: what the progress blob of translate_oscal holds
    lcPc,        \* run: "start", "configured", "loaded", "ready", "gathered", "ended"
    lcCalls,     \* run: generation units dispatched so far
    lcFailed,    \* run: dispatched units that failed after their retries
    lcWritten,   \* run: the artifacts written: "checkpoint", "component", "output"
    lcValid,     \* run: outcome of the final validation: "unknown", "valid", "invalid"
    lcExit,      \* run: exit status of the process (Running until it has ended)
    rlNow,       \* rate limiter: time.time(), in seconds
    rlLast,      \* rate limiter: last_request_time
    rlTasks,     \* rate limiter: per translate_batch task, its position, wake-up time, attempt
    rlStarts     \* rate limiter: the times at which the last two generation requests were started

gateVars == <<prog, pc, attempt, permits>>
qcVars == <<cid, result, lockHolder, qcControls, proseQs>>
g2oVars == <<awaiting, orphans>>
batVars == <<batKind, batInput, batLimit, batOut, batDone>>
apVars == <<apProps, apClass, apResults, apPhase, apRuns>>
trVars == <<trTestMode, trPhase, trTranslations, trMissing, trSelected, trBatches, trRequests,
           trProgress>>
rtVars == <<rtFn, rtPc, rtAttempt, rtCalls, rtFails, rtDelays, rtReturn, rtEnumHasOK>>
mgVars == <<mgKind, mgCatalog, mgInput, mgOnce, mgRuns, mgClock>>
runVars == <<runResults, runPhase, runOutput>>
treeVars == <<treeFn, treeSrc, treePc, treeMap, treeUnique, treeOut, treeRaised>>
lcVars == <<lcJob, lcEnv, lcSource, lcProgress, lcPc, lcCalls, lcFailed, lcWritten, lcValid,
           lcExit>>
rlVars == <<rlNow, rlLast, rlTasks, rlStarts>>
docVars == <<treeVars, lcVars, rlVars>>
extVars == <<rtVars, mgVars, runVars, docVars>>
pureVars == <<batVars, apVars, trVars, extVars>>
otherVars == <<g2oVars, pureVars>>
vars == <<gateVars, qcVars, g2oVars, batVars, apVars, trVars, extVars>>

(***************************************************************************)
(* Bounds of the model.                                                    *)
(***************************************************************************)
\* Number of dispatch units (tasks / worker jobs) created by one run.
NumUnits == 3
\* Capacity of the concurrency gate.  The jobs use Semaphore(10),
\* Semaphore(CONCURRENT_REQUEST_LIMIT = 5) and Semaphore(MAX_CONCURRENT_JOBS = 10);
\* the model scales the capacity below NumUnits so that units do queue at the gate.
GateCapacity == 2

Units == 1..NumUnits
NoUnit == 0
None == "None"

\* range(5) / range(MAX_RETRIES): the retry loops make at most this many attempts.
MAX_RETRIES == 5

Count(S) == Cardinality(S)

(***************************************************************************)
(* The concurrency gate: asyncio.Semaphore / threading.Semaphore.          *)
(***************************************************************************)
\* Mutant: an acquire that never waits.
SemAcquirableUnguarded == TRUE

\* Semaphore.acquire() returns only while the counter is positive.
SemAcquirable == permits > 0

SemAcquire == permits' = permits - 1
\* Mutant: leaving the gate does not give the permit back.
SemReleaseSkipped == permits' = permits

SemRelease == permits' = permits + 1

(***************************************************************************)
(* quality_control: the catalog the run works on.                          *)
(* Two bausteine; C1 and C2 carry one maturity-level prose part with an    *)
(* id, C3 carries none; CX is a control id that is in no baustein.         *)
(***************************************************************************)
Bausteine == <<"B1", "B2">>
BausteinIds == {Bausteine[i] : i \in DOMAIN Bausteine}
InitControls == [b \in BausteinIds |-> IF b = "B1" THEN <<"C1", "C3">> ELSE <<"C2">>]
CidList == <<"C1", "C2", "C3", "CX">>
Cids == {CidList[i] : i \in DOMAIN CidList}
PartIds == {"P1", "P2"}
CidRank(c) == CHOOSE i \in DOMAIN CidList : CidList[i] = c

\* get_prose_from_control: the (part_id, prose) pairs of a control's content parts.
get_prose_from_control(c) ==
    IF c = "C1" THEN <<"P1">> ELSE IF c = "C2" THEN <<"P2">> ELSE <<>>

\* The id a model response suggests as a new control for control c.
SuggestedIdFor(c) == IF c = "C1" THEN "N1" ELSE IF c = "C2" THEN "N2" ELSE "N3"
SuggestedIds == {SuggestedIdFor(c) : c \in Cids}

SeqToSet(s) == {s[i] : i \in DOMAIN s}

\* find_parent_baustein: the first baustein, in document order, whose "controls"
\* list holds a control with the id; None when there is none.
find_parent_baustein(controls, c) ==
    LET hits == {i \in DOMAIN Bausteine : c \in SeqToSet(controls[Bausteine[i]])}
    IN IF hits = {} THEN None
       ELSE Bausteine[CHOOSE i \in hits : \A j \in hits : i <= j]

\* find_item_by_id_recursive restricted to what process_control looks up:
\* TRUE when some node of the catalog carries the id.
ItemExists(controls, id) ==
    \/ id \in BausteinIds
    \/ id \in PartIds
    \/ \E b \in BausteinIds : id \in SeqToSet(controls[b])

\* The responses get_gemini_enrichment can return for unit t: a schema-valid object
\* with an "enriched_prose" list and a "suggested_new_controls" list.
\* "some" is FALSE only in NoResult, the None that stands for no result.
NoResult == [some |-> FALSE, enriched |-> <<>>, suggested |-> <<>>]
GenResults(t) ==
    {[some |-> TRUE, enriched |-> e, suggested |-> s] :
        e \in {<<>>} \cup {<<[part_id |-> p, prose_qs |-> t]>> : p \in PartIds},
        s \in {<<>>, <<SuggestedIdFor(cid[t])>>}}

(***************************************************************************)
(* quality_control: asyncio.Lock catalog_lock and the merge it guards.     *)
(***************************************************************************)
\* Mutant: a lock that can be taken while another task holds it.
LockAcquirableUnguarded == TRUE

\* Lock.acquire() returns only while the lock is not held.
LockAcquirable == lockHolder = NoUnit

\* Mutant: the section is left without giving the lock back.
LockReleaseForgotten == UNCHANGED lockHolder

\* Leaving "async with catalog_lock" releases the lock.
LockRelease == lockHolder' = NoUnit

\* for item in enriched_prose: part = find_item_by_id_recursive(...);
\* if part: part["prose_qs"] = item["prose_qs"]
MergeProse(qs, r) ==
    [p \in PartIds |->
        LET writes == {i \in DOMAIN r.enriched : r.enriched[i].part_id = p}
        IN IF writes = {} THEN qs[p]
           ELSE r.enriched[CHOOSE i \in writes : \A j \in writes : j <= i].prose_qs]

\* for new_control in new_controls: target_baustein["controls"].append(new_control)
AppendSuggested(controls, b, r) ==
    [controls EXCEPT ![b] = controls[b] \o r.suggested]

\* Leaving "async with semaphore" with the unit finished: the permit goes back
\* and the locals of the coroutine are dead.
QcFinish(t) ==
    /\ pc' = [pc EXCEPT ![t] = "done"]
    /\ attempt' = [attempt EXCEPT ![t] = 0]
    /\ result' = [result EXCEPT ![t] = NoResult]

\* process_control up to its first suspension inside the gate: acquire a permit,
\* look the control and its baustein up, return [] early or issue the first call.
QcStart(t) ==
    /\ prog = "qc"
    /\ pc[t] = "start"
    /\ SemAcquirable
    /\ LET baustein == find_parent_baustein(qcControls, cid[t])
       IN IF \/ ~ItemExists(qcControls, cid[t])
             \/ baustein = None
             \/ get_prose_from_control(cid[t]) = <<>>
          THEN /\ QcFinish(t)
               /\ UNCHANGED permits
          ELSE /\ SemAcquire
               /\ pc' = [pc EXCEPT ![t] = "calling"]
               /\ attempt' = [attempt EXCEPT ![t] = 0]
               /\ UNCHANGED result
    /\ UNCHANGED <<prog, cid, lockHolder, qcControls, proseQs>>
    /\ UNCHANGED otherVars

\* get_gemini_enrichment: generate_content_async returns or raises.
QcCallReturns(t) ==
    /\ prog = "qc"
    /\ pc[t] = "calling"
    /\ \/ \* finish reason neither STOP nor MAX_TOKENS: sleep, then continue
          /\ pc' = [pc EXCEPT ![t] = "sleeping"]
          /\ UNCHANGED <<attempt, result, permits>>
       \/ \* an exception (API error, invalid JSON, schema violation)
          IF attempt[t] < MAX_RETRIES - 1
          THEN /\ pc' = [pc EXCEPT ![t] = "sleeping"]
               /\ UNCHANGED <<attempt, result, permits>>
          ELSE /\ QcFinish(t)
               /\ SemRelease
       \/ \* a schema-valid result: process_control goes on to "async with catalog_lock"
          \E r \in GenResults(t) :
            /\ result' = [result EXCEPT ![t] = r]
            /\ pc' = [pc EXCEPT ![t] = "waitLock"]
            /\ attempt' = [attempt EXCEPT ![t] = 0]
            /\ UNCHANGED permits
    /\ UNCHANGED <<prog, cid, lockHolder, qcControls, proseQs>>
    /\ UNCHANGED otherVars

\* asyncio.sleep(2 ** attempt) is over: the next attempt, or the loop has run out.
QcWake(t) ==
    /\ prog = "qc"
    /\ pc[t] = "sleeping"
    /\ IF attempt[t] + 1 < MAX_RETRIES
       THEN /\ pc' = [pc EXCEPT ![t] = "calling"]
            /\ attempt' = [attempt EXCEPT ![t] = attempt[t] + 1]
            /\ UNCHANGED <<result, permits>>
       ELSE /\ QcFinish(t)
            /\ SemRelease
    /\ UNCHANGED <<prog, cid, lockHolder, qcControls, proseQs>>
    /\ UNCHANGED otherVars

\* async with catalog_lock: entry.
QcLockAcquire(t) ==
    /\ prog = "qc"
    /\ pc[t] = "waitLock"
    /\ LockAcquirable
    /\ lockHolder' = t
    /\ pc' = [pc EXCEPT ![t] = "locked"]
    /\ UNCHANGED <<prog, attempt, permits, cid, result, qcControls, proseQs>>
    /\ UNCHANGED otherVars

\* Inside the lock: look the baustein up again, then write prose_qs.
QcMergeProse(t) ==
    /\ prog = "qc"
    /\ pc[t] = "locked"
    /\ IF find_parent_baustein(qcControls, cid[t]) = None
       THEN /\ QcFinish(t)
            /\ SemRelease
            /\ LockRelease
            /\ UNCHANGED proseQs
       ELSE /\ proseQs' = MergeProse(proseQs, result[t])
            /\ pc' = [pc EXCEPT ![t] = "appending"]
            /\ UNCHANGED <<attempt, result, permits, lockHolder>>
    /\ UNCHANGED <<prog, cid, qcControls>>
    /\ UNCHANGED otherVars

\* Inside the lock: append the suggested controls; then leave the lock and the gate.
QcMergeAppend(t) ==
    /\ prog = "qc"
    /\ pc[t] = "appending"
    /\ qcControls' = AppendSuggested(qcControls,
                        find_parent_baustein(qcControls, cid[t]), result[t])
    /\ LockRelease
    /\ QcFinish(t)
    /\ SemRelease
    /\ UNCHANGED <<prog, cid, proseQs>>
    /\ UNCHANGED otherVars

NextQC ==
    \E t \in Units :
        \/ QcStart(t)
        \/ QcCallReturns(t)
        \/ QcWake(t)
        \/ QcLockAcquire(t)
        \/ QcMergeProse(t)
        \/ QcMergeAppend(t)

(***************************************************************************)
(* g2r_oscal: process_single_blob_for_stub.                                *)
(***************************************************************************)
GateFinish(t) ==
    /\ pc' = [pc EXCEPT ![t] = "done"]
    /\ attempt' = [attempt EXCEPT ![t] = 0]
    /\ SemRelease

\* A task that has not returned yet, and the None of a task that gave up.
PendingResult == [main |-> None, some |-> FALSE, id |-> 0, body |-> "pending"]
NoneResult == [main |-> None, some |-> FALSE, id |-> 0, body |-> ""]

\* The jobs made of one gated retry task per PDF whose results main()
\* gathers and merges: g2r_oscal and g2oscal/main.py.
GatherJobs == {"g2r", "g2om"}

gatherRest == <<g2oVars, batVars, apVars, trVars, rtVars, mgVars, runPhase, runOutput, docVars>>

\* The baustein the PDF of unit t describes, as a validated stub
\* (g2r_oscal) or as (main_group_id, baustein) (g2oscal).
ResultOf(t) == [main |-> "APP", some |-> TRUE, id |-> ((t - 1) % 3) + 1, body |-> "new"]

G2rStart(t) ==
    /\ prog \in GatherJobs
    /\ pc[t] = "start"
    /\ SemAcquirable
    /\ SemAcquire
    /\ pc' = [pc EXCEPT ![t] = "calling"]
    /\ attempt' = [attempt EXCEPT ![t] = 0]
    /\ UNCHANGED <<prog, runResults>> /\ UNCHANGED qcVars /\ UNCHANGED gatherRest

G2rCallReturns(t) ==
    /\ prog \in GatherJobs
    /\ pc[t] = "calling"
    /\ \/ \* a validated result is returned
          /\ GateFinish(t)
          /\ runResults' = [runResults EXCEPT ![t] = ResultOf(t)]
       \/ \* a retryable failure
          IF attempt[t] + 1 = MAX_RETRIES
          THEN /\ GateFinish(t)
               /\ runResults' = [runResults EXCEPT ![t] = NoneResult]
          ELSE /\ pc' = [pc EXCEPT ![t] = "sleeping"]
               /\ UNCHANGED <<attempt, permits, runResults>>
       \/ \* g2r_oscal: except Exception: return None
          /\ prog = "g2r"
          /\ GateFinish(t)
          /\ runResults' = [runResults EXCEPT ![t] = NoneResult]
    /\ UNCHANGED <<prog>> /\ UNCHANGED qcVars /\ UNCHANGED gatherRest

G2rWake(t) ==
    /\ prog \in GatherJobs
    /\ pc[t] = "sleeping"
    /\ pc' = [pc EXCEPT ![t] = "calling"]
    /\ attempt' = [attempt EXCEPT ![t] = attempt[t] + 1]
    /\ UNCHANGED <<prog, permits, runResults>> /\ UNCHANGED qcVars /\ UNCHANGED gatherRest

NextG2R == \E t \in Units : G2rStart(t) \/ G2rCallReturns(t) \/ G2rWake(t)

(***************************************************************************)
(* oscal_components_from_grundschutz: process_baustein_concurrently run by *)
(* ThreadPoolExecutor(max_workers = MAX_CONCURRENT_JOBS).                  *)
(***************************************************************************)
WorkersBusy == Count({u \in Units : pc[u] \in {"running", "processing", "uploading"}})

\* A pool worker picks the submitted job up.
OcgRun(t) ==
    /\ prog = "ocg"
    /\ pc[t] = "start"
    /\ WorkersBusy < GateCapacity
    /\ pc' = [pc EXCEPT ![t] = "running"]
    /\ UNCHANGED <<prog, attempt, permits>> /\ UNCHANGED qcVars /\ UNCHANGED otherVars

\* with semaphore: entry.
OcgAcquire(t) ==
    /\ prog = "ocg"
    /\ pc[t] = "running"
    /\ SemAcquirable
    /\ SemAcquire
    /\ pc' = [pc EXCEPT ![t] = "processing"]
    /\ UNCHANGED <<prog, attempt>> /\ UNCHANGED qcVars /\ UNCHANGED otherVars

\* process_single_baustein returns a component, or returns None or raises.
OcgProcessed(t) ==
    /\ prog = "ocg"
    /\ pc[t] = "processing"
    /\ \/ /\ pc' = [pc EXCEPT ![t] = "uploading"]
          /\ UNCHANGED <<attempt, permits>>
       \/ GateFinish(t)
    /\ UNCHANGED <<prog>> /\ UNCHANGED qcVars /\ UNCHANGED otherVars

\* jsonschema.validate and upload_json_to_gcs return or raise; the with block ends.
OcgUploaded(t) ==
    /\ prog = "ocg"
    /\ pc[t] = "uploading"
    /\ GateFinish(t)
    /\ UNCHANGED <<prog>> /\ UNCHANGED qcVars /\ UNCHANGED otherVars

NextOCG == \E t \in Units : OcgRun(t) \/ OcgAcquire(t) \/ OcgProcessed(t) \/ OcgUploaded(t)

(***************************************************************************)
(* g2oscal/gemini_utils.py: process_baustein_pdf.  One permit covers the   *)
(* discovery call and then the generation and the enrichment call, which   *)
(* asyncio.gather runs side by side.  gather() does not cancel the other   *)
(* call when one of them raises: that call runs on, awaited by nobody.     *)
(***************************************************************************)
RECURSIVE SumOver(_, _)
SumOver(f, S) ==
    IF S = {} THEN 0
    ELSE LET x == CHOOSE y \in S : TRUE IN f[x] + SumOver(f, S \ {x})

\* Generation calls of unit u that the service is working on.
CallsOf(u) ==
    (IF pc[u] = "discovery" THEN 1 ELSE 0) + Count(awaiting[u]) + orphans[u]

CallsInFlight == SumOver([u \in Units |-> CallsOf(u)], Units)

G2oFinish(t) ==
    /\ pc' = [pc EXCEPT ![t] = "done"]
    /\ attempt' = [attempt EXCEPT ![t] = 0]
    /\ awaiting' = [awaiting EXCEPT ![t] = {}]
    /\ SemRelease

\* except Exception: sleep and retry, or give up after MAX_RETRIES attempts.
G2oFailed(t) ==
    /\ awaiting' = [awaiting EXCEPT ![t] = {}]
    /\ IF attempt[t] + 1 < MAX_RETRIES
       THEN /\ pc' = [pc EXCEPT ![t] = "sleeping"]
            /\ UNCHANGED <<attempt, permits>>
       ELSE /\ pc' = [pc EXCEPT ![t] = "done"]
            /\ attempt' = [attempt EXCEPT ![t] = 0]
            /\ SemRelease

G2oStart(t) ==
    /\ prog = "g2o"
    /\ pc[t] = "start"
    /\ SemAcquirable
    /\ SemAcquire
    /\ pc' = [pc EXCEPT ![t] = "discovery"]
    /\ attempt' = [attempt EXCEPT ![t] = 0]
    /\ UNCHANGED <<prog, awaiting, orphans>>
    /\ UNCHANGED qcVars /\ UNCHANGED pureVars

\* Stage 1: call_gemini_api for the discovery prompt returns or raises.
G2oDiscoveryReturns(t) ==
    /\ prog = "g2o"
    /\ pc[t] = "discovery"
    /\ \/ \* requirements found: start generation and enrichment together
          /\ pc' = [pc EXCEPT ![t] = "stage23"]
          /\ awaiting' = [awaiting EXCEPT ![t] = {"generation", "enrichment"}]
          /\ UNCHANGED <<attempt, permits>>
       \/ \* no requirements: return the empty baustein
          G2oFinish(t)
       \/ G2oFailed(t)
    /\ UNCHANGED <<prog, orphans>>
    /\ UNCHANGED qcVars /\ UNCHANGED pureVars

\* Stages 2 and 3: one of the two gathered calls returns or raises.
G2oStageCallEnds(t) ==
    /\ prog = "g2o"
    /\ pc[t] = "stage23"
    /\ \E k \in awaiting[t] :
        \/ \* it returned validated data
           /\ IF awaiting[t] = {k}
              THEN G2oFinish(t)
              ELSE /\ awaiting' = [awaiting EXCEPT ![t] = awaiting[t] \ {k}]
                   /\ UNCHANGED <<pc, attempt, permits>>
           /\ UNCHANGED orphans
        \/ \* it raised: gather() raises at once, the other call is left running
           /\ orphans' = [orphans EXCEPT ![t] = orphans[t] + Count(awaiting[t] \ {k})]
           /\ G2oFailed(t)
    /\ UNCHANGED prog
    /\ UNCHANGED qcVars /\ UNCHANGED pureVars

G2oWake(t) ==
    /\ prog = "g2o"
    /\ pc[t] = "sleeping"
    /\ pc' = [pc EXCEPT ![t] = "discovery"]
    /\ attempt' = [attempt EXCEPT ![t] = attempt[t] + 1]
    /\ UNCHANGED <<prog, permits, awaiting, orphans>>
    /\ UNCHANGED qcVars /\ UNCHANGED pureVars

\* A call that nobody awaits any more completes.
G2oOrphanEnds(t) ==
    /\ prog = "g2o"
    /\ orphans[t] > 0
    /\ orphans' = [orphans EXCEPT ![t] = orphans[t] - 1]
    /\ UNCHANGED <<prog, pc, attempt, permits, awaiting>>
    /\ UNCHANGED qcVars /\ UNCHANGED pureVars

NextG2O ==
    \E t \in Units :
        \/ G2oStart(t)
        \/ G2oDiscoveryReturns(t)
        \/ G2oStageCallEnds(t)
        \/ G2oWake(t)
        \/ G2oOrphanEnds(t)

(***************************************************************************)
(* Specification of the gated dispatch jobs.                               *)
(***************************************************************************)
\* The control ids of the tasks of one component file; the tasks are
\* interchangeable, so the ids are drawn in non-decreasing order.
CidAssignments ==
    {f \in [Units -> Cids] : \A i, j \in Units : i < j => CidRank(f[i]) <= CidRank(f[j])}

GateIdle ==
    /\ pc = [u \in Units |-> "start"]
    /\ attempt = [u \in Units |-> 0]
    /\ permits = GateCapacity

QcIdle ==
    /\ result = [u \in Units |-> NoResult]
    /\ lockHolder = NoUnit
    /\ qcControls = InitControls
    /\ proseQs = [p \in PartIds |-> 0]

G2oIdle ==
    /\ awaiting = [u \in Units |-> {}]
    /\ orphans = [u \in Units |-> 0]

BatIdle ==
    /\ batKind = None
    /\ batInput = <<>>
    /\ batLimit = 0
    /\ batOut = <<>>
    /\ batDone = FALSE

ApIdle ==
    /\ apProps = <<>>
    /\ apClass = <<>>
    /\ apResults = <<>>
    /\ apPhase = "idle"
    /\ apRuns = 0

TrIdle ==
    /\ trTestMode = FALSE
    /\ trPhase = "idle"
    /\ trTranslations = <<>>
    /\ trMissing = <<>>
    /\ trSelected = <<>>
    /\ trBatches = <<>>
    /\ trRequests = <<>>
    /\ trProgress = <<>>

RtIdle ==
    /\ rtFn = None
    /\ rtPc = "idle"
    /\ rtAttempt = 0
    /\ rtCalls = 0
    /\ rtFails = <<>>
    /\ rtDelays = <<>>
    /\ rtReturn = "pending"
    /\ rtEnumHasOK = FALSE

MgIdle ==
    /\ mgKind = None
    /\ mgCatalog = <<>>
    /\ mgInput = <<>>
    /\ mgOnce = <<>>
    /\ mgRuns = 0
    /\ mgClock = 0

RunIdle ==
    /\ runResults = [u \in Units |-> PendingResult]
    /\ runPhase = "dispatching"
    /\ runOutput = <<>>

TreeIdle ==
    /\ treeFn = None
    /\ treeSrc = <<>>
    /\ treePc = "idle"
    /\ treeMap = <<>>
    /\ treeUnique = <<>>
    /\ treeOut = <<>>
    /\ treeRaised = "none"

\* lcExit while the process has not ended.
Running == 0 - 1

LcIdle ==
    /\ lcJob = None
    /\ lcEnv = "ok"
    /\ lcSource = "ok"
    /\ lcProgress = "absent"
    /\ lcPc = "idle"
    /\ lcCalls = 0
    /\ lcFailed = 0
    /\ lcWritten = {}
    /\ lcValid = "unknown"
    /\ lcExit = Running

RlIdle ==
    /\ rlNow = 0
    /\ rlLast = 0
    /\ rlTasks = <<>>
    /\ rlStarts = <<>>

DocIdle == TreeIdle /\ LcIdle /\ RlIdle

ExtIdle == RtIdle /\ MgIdle /\ RunIdle /\ DocIdle

Init ==
    /\ prog \in {"qc", "g2r", "ocg"}
    /\ GateIdle
    /\ ExtIdle
    /\ cid \in (IF prog = "qc" THEN CidAssignments ELSE {[u \in Units |-> "CX"]})
    /\ QcIdle /\ G2oIdle /\ BatIdle /\ ApIdle /\ TrIdle

Next == NextQC \/ NextG2R \/ NextOCG

Spec == Init /\ [][Next]_vars

InitG2O ==
    /\ prog = "g2o"
    /\ GateIdle
    /\ ExtIdle
    /\ cid = [u \in Units |-> "CX"]
    /\ QcIdle /\ G2oIdle /\ BatIdle /\ ApIdle /\ TrIdle

SpecG2O == InitG2O /\ [][NextG2O]_vars

(***************************************************************************)
(* The batcher: translate_oscal create_batches and add-practice            *)
(* create_control_batches.  An item is [id, len]: len is the length of     *)
(* item["original_text"], respectively of json.dumps(control_stub).        *)
(***************************************************************************)
\* Largest number of items handed to the batcher.
MaxItems == 3

\* translate_oscal: TOKEN_LIMIT_PER_BATCH and prompt_overhead_tokens.
TOKEN_LIMIT_PER_BATCH == 4000
TR_PROMPT_OVERHEAD == 200
\* add-practice: prompt_overhead_tokens.
AP_PROMPT_OVERHEAD == 1000

\* Text lengths: estimates 200, 1900, 3800 (exactly fills a batch) and 4200 (oversized).
TextLens == {600, 5700, 11400, 12600}
\* Lengths of json.dumps({"id": ..., "title": ...}): estimates 13, 50 and 100.
StubLens == {27, 100, 200}
\* add-practice takes TOKEN_LIMIT_PER_BATCH from its configuration.
ApLimits == {1000, 1100}

\* len(item["original_text"]) // 3   and   len(json.dumps(control_stub)) // 2
ItemTokens(kind, item) ==
    IF kind = "create_batches" THEN item.len \div 3 ELSE item.len \div 2

PromptOverhead(kind) ==
    IF kind = "create_batches" THEN TR_PROMPT_OVERHEAD ELSE AP_PROMPT_OVERHEAD

\* Mutant: the prompt overhead is left out of the comparison.
ExceedsLimitNoOverhead(curTokens, itemTokens, overhead, limit) ==
    curTokens + itemTokens > limit

\* (current_tokens + item_tokens + prompt_overhead_tokens) > TOKEN_LIMIT_PER_BATCH
ExceedsLimit(curTokens, itemTokens, overhead, limit) ==
    curTokens + itemTokens + overhead > limit

\* Mutant: the last batch is not appended.
FlushLastDropped(batches, cur) == batches

\* if current_batch: batches.append(current_batch)
FlushLast(batches, cur) ==
    IF cur # <<>> THEN Append(batches, cur) ELSE batches

\* The loop over the items, from item i on.
RECURSIVE BatchLoop(_, _, _, _, _, _, _)
BatchLoop(kind, limit, items, i, batches, cur, curTokens) ==
    IF i > Len(items) THEN FlushLast(batches, cur)
    ELSE LET tok == ItemTokens(kind, items[i])
         IN IF ExceedsLimit(curTokens, tok, PromptOverhead(kind), limit) /\ cur # <<>>
            THEN BatchLoop(kind, limit, items, i + 1,
                           Append(batches, cur), <<items[i]>>, tok)
            ELSE BatchLoop(kind, limit, items, i + 1,
                           batches, Append(cur, items[i]), curTokens + tok)

\* Every item handed over carries "original_text" as a string, so the
\* except branch of the loop body is never taken.
create_batches(items) ==
    IF items = <<>> THEN <<>>
    ELSE BatchLoop("create_batches", TOKEN_LIMIT_PER_BATCH, items, 1, <<>>, <<>>, 0)

create_control_batches(controls, limit) ==
    BatchLoop("create_control_batches", limit, controls, 1, <<>>, <<>>, 0)

SeqsUpTo(S, n) == UNION {[1..k -> S] : k \in 0..n}

\* The items of an input: their position is their identity.
ItemsOf(lens) == [i \in DOMAIN lens |-> [id |-> i, len |-> lens[i]]]

RunCreateBatches ==
    /\ prog = "batch"
    /\ batKind = "create_batches"
    /\ ~batDone
    /\ batOut' = create_batches(ItemsOf(batInput))
    /\ batDone' = TRUE
    /\ UNCHANGED <<batKind, batInput, batLimit>>
    /\ UNCHANGED <<gateVars, qcVars, g2oVars, apVars, trVars, extVars>>

RunCreateControlBatches ==
    /\ prog = "batch"
    /\ batKind = "create_control_batches"
    /\ ~batDone
    /\ batOut' = create_control_batches(ItemsOf(batInput), batLimit)
    /\ batDone' = TRUE
    /\ UNCHANGED <<batKind, batInput, batLimit>>
    /\ UNCHANGED <<gateVars, qcVars, g2oVars, apVars, trVars, extVars>>

InitBatch ==
    /\ prog = "batch"
    /\ batKind \in {"create_batches", "create_control_batches"}
    /\ batInput \in (IF batKind = "create_batches"
                     THEN SeqsUpTo(TextLens, MaxItems)
                     ELSE SeqsUpTo(StubLens, MaxItems))
    /\ batLimit \in (IF batKind = "create_batches"
                     THEN {TOKEN_LIMIT_PER_BATCH} ELSE ApLimits)
    /\ batOut = <<>>
    /\ batDone = FALSE
    /\ GateIdle
    /\ ExtIdle
    /\ cid = [u \in Units |-> "CX"]
    /\ QcIdle /\ G2oIdle /\ ApIdle /\ TrIdle

NextBatch == RunCreateBatches \/ RunCreateControlBatches

SpecBatch == InitBatch /\ [][NextBatch]_vars

(***************************************************************************)
(* add-practice: main().  A run gathers one result per control (None for a *)
(* control whose generation failed) and merges them into the controls in   *)
(* the order find_all_controls returned them.                              *)
(***************************************************************************)
\* Longest "props" list of a control of the input catalog.
MaxProps == 2
\* Number of runs made one after the other, each on the output of the one before.
MaxRuns == 2

\* all_controls, in the order of find_all_controls.
ApControls == <<"K1", "K2">>
ApControlIds == {ApControls[i] : i \in DOMAIN ApControls}

props_ns == "https://www.bsi.bund.de/ns/grundschutz"
props_to_manage == {"practice", "effective_on_c", "effective_on_i", "effective_on_a"}

\* The props a control of the input catalog may carry.
PropPool ==
    {[name |-> "level", value |-> "1", ns |-> props_ns],
     [name |-> "practice", value |-> "OLD", ns |-> props_ns],
     [name |-> "effective_on_c", value |-> "true", ns |-> props_ns]}

\* An entry of the results list: generated data, or None ("some" is FALSE).
NoGen == [some |-> FALSE, class |-> "", practice |-> "",
          effective_on_c |-> FALSE, effective_on_i |-> FALSE, effective_on_a |-> FALSE]
GenPool ==
    {[some |-> TRUE, class |-> "Technical", practice |-> "GOV",
      effective_on_c |-> TRUE, effective_on_i |-> FALSE, effective_on_a |-> TRUE],
     [some |-> TRUE, class |-> "Management", practice |-> "OPS",
      effective_on_c |-> FALSE, effective_on_i |-> TRUE, effective_on_a |-> FALSE]}

\* str(value).lower() of a boolean.
StrLower(b) == IF b THEN "true" ELSE "false"

\* Mutant: the managed props of the previous run are kept.
RemoveManagedKept(props) == props

\* control["props"] = [p for p in control["props"] if p.get("name") not in props_to_manage]
RemoveManaged(props) ==
    SelectSeq(props, LAMBDA p : p.name \notin props_to_manage)

\* The four appends of the loop body.
NewProps(g) ==
    <<[name |-> "practice", value |-> g.practice, ns |-> props_ns],
      [name |-> "effective_on_c", value |-> StrLower(g.effective_on_c), ns |-> props_ns],
      [name |-> "effective_on_i", value |-> StrLower(g.effective_on_i), ns |-> props_ns],
      [name |-> "effective_on_a", value |-> StrLower(g.effective_on_a), ns |-> props_ns]>>

\* The body of "for control, generated_data in zip(all_controls, results)" for
\* the i-th control: TRUE when the control is updated.
ApUpdated(results, i) == i <= Len(results) /\ results[i].some

ApMergedProps(props, results) ==
    [c \in ApControlIds |->
        LET i == CHOOSE k \in DOMAIN ApControls : ApControls[k] = c
        IN IF ApUpdated(results, i)
           THEN RemoveManaged(props[c]) \o NewProps(results[i])
           ELSE props[c]]

ApMergedClass(class, results) ==
    [c \in ApControlIds |->
        LET i == CHOOSE k \in DOMAIN ApControls : ApControls[k] = c
        IN IF ApUpdated(results, i) THEN results[i].class ELSE class[c]]

\* batch_results = await asyncio.gather(*tasks); results = list(chain(...))
ApGenerate ==
    /\ prog = "ap"
    /\ apPhase \in {"idle", "merged"}
    /\ apRuns < MaxRuns
    /\ apResults' \in SeqsUpTo(GenPool \cup {NoGen}, Len(ApControls))
    /\ apPhase' = "generated"
    /\ UNCHANGED <<apProps, apClass, apRuns>>
    /\ UNCHANGED <<gateVars, qcVars, g2oVars, batVars, trVars, extVars>>

\* The merge loop and the upload of the updated catalog.
ApMerge ==
    /\ prog = "ap"
    /\ apPhase = "generated"
    /\ apProps' = ApMergedProps(apProps, apResults)
    /\ apClass' = ApMergedClass(apClass, apResults)
    /\ apPhase' = "merged"
    /\ apRuns' = apRuns + 1
    /\ UNCHANGED apResults
    /\ UNCHANGED <<gateVars, qcVars, g2oVars, batVars, trVars, extVars>>

\* What generate_practices_for_batch hands back for one control of its
\* batch: generated data, None, or no entry at all (a list shorter than the
\* batch, as a failed batch returns).  "for" records the control the entry
\* was generated for; the program does not read it.
GeneratedFor(c) ==
    {[some |-> TRUE, for |-> c, class |-> g.class, practice |-> g.practice,
      effective_on_c |-> g.effective_on_c, effective_on_i |-> g.effective_on_i,
      effective_on_a |-> g.effective_on_a] : g \in GenPool}
NoneFor(c) ==
    [some |-> FALSE, for |-> c, class |-> "", practice |-> "",
     effective_on_c |-> FALSE, effective_on_i |-> FALSE, effective_on_a |-> FALSE]
NoEntry == <<>>
EntriesFor(c) == {<<g>> : g \in GeneratedFor(c) \cup {NoneFor(c)}} \cup {NoEntry}

\* list(chain.from_iterable(batch_results)): the entries of the batches
\* one after the other, in the order of the batches.
RECURSIVE Chained(_, _)
Chained(entries, i) ==
    IF i > Len(entries) THEN <<>> ELSE entries[i] \o Chained(entries, i + 1)

\* main(): the batches are built, generated under the semaphore and
\* gathered, and their results are chained into one list.
ApGatherBatches ==
    /\ prog = "ap"
    /\ apPhase \in {"idle", "merged"}
    /\ apRuns < MaxRuns
    /\ \E entries \in [DOMAIN ApControls -> UNION {EntriesFor(c) : c \in ApControlIds}] :
          /\ \A i \in DOMAIN ApControls : entries[i] \in EntriesFor(ApControls[i])
          /\ apResults' = Chained(entries, 1)
    /\ apPhase' = "generated"
    /\ UNCHANGED <<apProps, apClass, apRuns>>
    /\ UNCHANGED <<gateVars, qcVars, g2oVars, batVars, trVars, extVars>>

NextAPBatches == ApGatherBatches \/ ApMerge

InitAP ==
    /\ prog = "ap"
    /\ apProps \in [ApControlIds -> SeqsUpTo(PropPool, MaxProps)]
    /\ apClass = [c \in ApControlIds |-> "unset"]
    /\ apResults = <<>>
    /\ apPhase = "idle"
    /\ apRuns = 0
    /\ GateIdle
    /\ ExtIdle
    /\ cid = [u \in Units |-> "CX"]
    /\ QcIdle /\ G2oIdle /\ BatIdle /\ TrIdle

NextAP == ApGenerate \/ ApMerge

SpecAP == InitAP /\ [][NextAP]_vars

SpecAPBatches == InitAP /\ [][NextAPBatches]_vars

(***************************************************************************)
(* translate_oscal: main() and translate_batch().  unique_texts_list is    *)
(* the deduplicated list of texts; a text is identified by its position.   *)
(* A language of item['translations'] is "ABSENT" (no key), "ok" (holds a  *)
(* translation) or holds the failure marker.                               *)
(***************************************************************************)
\* Number of unique texts of the catalog.
NumTexts == 3

TextIds == 1..NumTexts
FAILED_MARKER == "TRANSLATION FAILED (Gemini)"
Langs == {"en", "fr", "es"}

\* TARGET_LANGUAGE_CODES: the values of LANGUAGES (three of them stand for
\* the fourteen), replaced by ["en", "es"] under TEST_MODE.
TARGET_LANGUAGE_CODES(testMode) ==
    IF testMode THEN <<"en", "es">> ELSE <<"en", "fr", "es">>

\* len(original_text) of the unique texts: estimates 1900, 1900, 200, ...
TrTextLen(i) == IF i % 3 = 0 THEN 600 ELSE 5700
unique_texts_list == [i \in TextIds |-> [id |-> i, len |-> TrTextLen(i)]]

NoTranslations == [l \in Langs |-> "ABSENT"]

\* What the progress file may hold for one text after earlier runs.
ProgressPool ==
    {NoTranslations,
     [l \in Langs |-> IF l = "en" THEN "ok" ELSE "ABSENT"],
     [l \in Langs |-> "ok"],
     [l \in Langs |-> IF l = "es" THEN FAILED_MARKER ELSE "ok"],
     [l \in Langs |-> IF l = "fr" THEN "ABSENT" ELSE "ok"]}

\* Mutant: a language holding the failure marker counts as translated.
IsMissingIgnoringMarker(translations, lang) ==
    translations[lang] = "ABSENT"

\* lang_code not in item['translations'] or
\* item['translations'].get(lang_code) == "TRANSLATION FAILED (Gemini)"
IsMissing(translations, lang) ==
    translations[lang] = "ABSENT" \/ translations[lang] = FAILED_MARKER

\* missing_languages of one item, in the order of TARGET_LANGUAGE_CODES.
MissingLanguages(translations, targets) ==
    SelectSeq(targets, LAMBDA l : IsMissing(translations, l))

\* num_test_items = max(1, int(len(texts) * 0.05))
NumTestItems(n) == IF n \div 20 > 1 THEN n \div 20 ELSE 1

\* texts_to_translate_in_this_run after the TEST_MODE reduction.
TestModeSlice(testMode, texts) ==
    IF testMode /\ Len(texts) > NumTestItems(Len(texts))
    THEN SubSeq(texts, 1, NumTestItems(Len(texts)))
    ELSE texts

\* Mutant: the checkpoint is written without the translations.
SavedProgressEmpty(translations) == [i \in TextIds |-> NoTranslations]

\* save_progress: the items whose translations are not empty.
SavedProgress(translations) == translations

\* main(): load_progress() and the loop that fills item['translations'] and
\* item['missing_languages'] and collects texts_to_translate_in_this_run.
TrLoadProgress ==
    /\ prog = "tr"
    /\ trPhase = "start"
    /\ trTranslations' = [i \in TextIds |-> trProgress[i]]
    /\ trMissing' = [i \in TextIds |->
                        MissingLanguages(trProgress[i], TARGET_LANGUAGE_CODES(trTestMode))]
    /\ trSelected' = SelectSeq(unique_texts_list,
                        LAMBDA item : MissingLanguages(trProgress[item.id],
                                         TARGET_LANGUAGE_CODES(trTestMode)) # <<>>)
    /\ trPhase' = "loaded"
    /\ UNCHANGED <<trTestMode, trBatches, trRequests, trProgress>>
    /\ UNCHANGED <<gateVars, qcVars, g2oVars, batVars, apVars, extVars>>

\* main(): the TEST_MODE reduction and create_batches; without texts or
\* without batches the run goes on to the final files.
TrPlan ==
    /\ prog = "tr"
    /\ trPhase = "loaded"
    /\ trSelected' = TestModeSlice(trTestMode, trSelected)
    /\ trBatches' = create_batches(trSelected')
    /\ trPhase' = IF trBatches' = <<>> THEN "done" ELSE "translating"
    /\ UNCHANGED <<trTestMode, trTranslations, trMissing, trRequests, trProgress>>
    /\ UNCHANGED <<gateVars, qcVars, g2oVars, batVars, apVars, extVars>>

\* MAX_TRANSLATION_RETRIES, GEMINI_QPM_LIMIT and REQUEST_DELAY_SECONDS.
MAX_TRANSLATION_RETRIES == 5
GEMINI_QPM_LIMIT == 10
REQUEST_DELAY_SECONDS == 60 \div GEMINI_QPM_LIMIT

RECURSIVE Pow2(_)
Pow2(n) == IF n = 0 THEN 1 ELSE 2 * Pow2(n - 1)

Max(a, b) == IF a > b THEN a ELSE b

\* The ways one attempt of translate_batch fails, and the seconds slept after it:
\*   "blocked":   no candidates, or a finish reason other than STOP;
\*   "badjson":   the response text is not valid JSON;
\*   "transient": ResourceExhausted or any other exception.
TrFailures == {"blocked", "badjson", "transient"}
TrSleep(kind, att) ==
    IF kind = "blocked" THEN Pow2(att)
    ELSE IF kind = "badjson" THEN 1
    ELSE Max(REQUEST_DELAY_SECONDS * 2, Pow2(att))

\* main() creates translate_batch(batch, TARGET_LANGUAGE_CODES, ...) for the
\* next batch; the coroutine builds its prompt from those language codes and
\* then waits for gemini_semaphore.
TrDispatch ==
    /\ prog = "tr"
    /\ trPhase = "translating"
    /\ Len(trRequests) < Len(trBatches)
    /\ trRequests' = Append(trRequests,
                        [batch |-> Len(trRequests) + 1,
                         langs |-> TARGET_LANGUAGE_CODES(trTestMode),
                         state |-> "sent",
                         holds |-> FALSE,
                         attempt |-> 0,
                         lastFail |-> "none",
                         slept |-> 0,
                         result |-> FALSE,
                         answered |-> 0,
                         saved |-> FALSE])
    /\ UNCHANGED <<trTestMode, trPhase, trTranslations, trMissing, trSelected, trBatches,
                   trProgress>>
    /\ UNCHANGED <<gateVars, qcVars, g2oVars, batVars, apVars, extVars>>

\* translate_batch: async with gemini_semaphore (entry).
TrAcquire(k) ==
    /\ prog = "tr"
    /\ trPhase = "translating"
    /\ k \in DOMAIN trRequests
    /\ trRequests[k].state = "sent"
    /\ ~trRequests[k].holds
    /\ SemAcquirable
    /\ SemAcquire
    /\ trRequests' = [trRequests EXCEPT ![k].holds = TRUE]
    /\ UNCHANGED <<prog, pc, attempt>>
    /\ UNCHANGED <<trTestMode, trPhase, trTranslations, trMissing, trSelected, trBatches,
                   trProgress>>
    /\ UNCHANGED <<qcVars, g2oVars, batVars, apVars, extVars>>

\* translate_batch: one pass of "for attempt in range(MAX_TRANSLATION_RETRIES)"
\* whose call fails: the failure is logged, the coroutine sleeps and the loop
\* goes on to the next attempt.
TrAttemptFails(k, kind) ==
    /\ prog = "tr"
    /\ trPhase = "translating"
    /\ k \in DOMAIN trRequests
    /\ trRequests[k].state = "sent"
    /\ trRequests[k].holds
    /\ trRequests[k].attempt < MAX_TRANSLATION_RETRIES
    /\ trRequests' = [trRequests EXCEPT ![k].attempt = @ + 1,
                                        ![k].lastFail = kind,
                                        ![k].slept = TrSleep(kind, trRequests[k].attempt)]
    /\ UNCHANGED <<trTestMode, trPhase, trTranslations, trMissing, trSelected, trBatches,
                   trProgress>>
    /\ UNCHANGED <<gateVars, qcVars, g2oVars, batVars, apVars, extVars>>

BatchIds(b) == {b[j].id : j \in DOMAIN b}
LangSet(langs) == {langs[j] : j \in DOMAIN langs}

\* The ids of a batch that a parsed response answers.
AnsweredIds(b, outcome) ==
    IF outcome = "noitem" THEN {}
    ELSE IF outcome = "oneless" THEN {b[j].id : j \in 1..(Len(b) - 1)}
    ELSE BatchIds(b)

\* The update of item['translations'] by a parsed response.
\*   "translated": every id and every requested language is answered;
\*   "refused":    every id is answered with "" or "TRANSLATION FAILED";
\*   "noitem":     the ids of the batch are not in the response;
\*   "oneless":    the last id of the batch is not in the response, the
\*                 others are answered in every requested language.
UpdatedTranslations(translations, b, langs, outcome) ==
    [i \in TextIds |->
        IF i \notin BatchIds(b) THEN translations[i]
        ELSE [l \in Langs |->
                IF l \notin langs THEN translations[i][l]
                ELSE IF i \in AnsweredIds(b, outcome)
                     THEN (IF outcome = "refused" THEN FAILED_MARKER ELSE "ok")
                ELSE IF translations[i][l] = "ABSENT" THEN FAILED_MARKER
                ELSE translations[i][l]]]

\* translate_batch: the end of the retry loop.  A response that parses updates
\* the items, calls save_progress (whose upload may raise, which save_progress
\* logs and swallows) and returns True; after MAX_TRANSLATION_RETRIES failed
\* attempts the function returns False.  The permit is given back either way.
TrResponse(k, outcome, uploaded) ==
    /\ prog = "tr"
    /\ trPhase = "translating"
    /\ k \in DOMAIN trRequests
    /\ trRequests[k].state = "sent"
    /\ trRequests[k].holds
    /\ IF outcome = "giveup"
       THEN /\ trRequests[k].attempt = MAX_TRANSLATION_RETRIES
            /\ ~uploaded
            /\ UNCHANGED <<trTranslations, trProgress>>
       ELSE /\ trRequests[k].attempt < MAX_TRANSLATION_RETRIES
            /\ trTranslations' = UpdatedTranslations(trTranslations,
                                    trBatches[trRequests[k].batch],
                                    LangSet(trRequests[k].langs), outcome)
            /\ trProgress' = IF uploaded THEN SavedProgress(trTranslations') ELSE trProgress
    /\ trRequests' = [trRequests EXCEPT ![k].state = "returned",
                                        ![k].holds = FALSE,
                                        ![k].attempt = 0,
                                        ![k].lastFail = "none",
                                        ![k].slept = 0,
                                        ![k].result = (outcome # "giveup"),
                                        ![k].answered =
                                            IF outcome = "giveup" THEN 0
                                            ELSE Cardinality(AnsweredIds(
                                                   trBatches[trRequests[k].batch], outcome)),
                                        ![k].saved = uploaded]
    /\ SemRelease
    /\ UNCHANGED <<prog, pc, attempt>>
    /\ UNCHANGED <<trTestMode, trPhase, trMissing, trSelected, trBatches>>
    /\ UNCHANGED <<qcVars, g2oVars, batVars, apVars, extVars>>

\* results = await asyncio.gather(*translation_tasks), then the final files.
TrGathered ==
    /\ prog = "tr"
    /\ trPhase = "translating"
    /\ Len(trRequests) = Len(trBatches)
    /\ \A k \in DOMAIN trRequests : trRequests[k].state = "returned"
    /\ trPhase' = "done"
    /\ UNCHANGED <<trTestMode, trTranslations, trMissing, trSelected, trBatches, trRequests,
                   trProgress>>
    /\ UNCHANGED <<gateVars, qcVars, g2oVars, batVars, apVars, extVars>>

TrOutcomes == {"translated", "refused", "noitem", "oneless", "giveup"}

InitTR ==
    /\ prog = "tr"
    /\ trTestMode \in BOOLEAN
    /\ trProgress \in [TextIds -> ProgressPool]
    /\ trPhase = "start"
    /\ trTranslations = [i \in TextIds |-> NoTranslations]
    /\ trMissing = [i \in TextIds |-> <<>>]
    /\ trSelected = <<>>
    /\ trBatches = <<>>
    /\ trRequests = <<>>
    /\ GateIdle
    /\ ExtIdle
    /\ cid = [u \in Units |-> "CX"]
    /\ QcIdle /\ G2oIdle /\ BatIdle /\ ApIdle

NextTR ==
    \/ TrLoadProgress
    \/ TrPlan
    \/ TrDispatch
    \/ \E k \in 1..NumTexts : TrAcquire(k)
    \/ \E k \in 1..NumTexts, kind \in TrFailures : TrAttemptFails(k, kind)
    \/ \E k \in 1..NumTexts, outcome \in TrOutcomes, uploaded \in BOOLEAN :
          TrResponse(k, outcome, uploaded)
    \/ TrGathered

SpecTR == InitTR /\ [][NextTR]_vars

\* A text the progress file holds from an earlier run and the catalog of
\* this run no longer has: no item of unique_texts_list carries it.
StaleText == 0

\* The run starts on a progress file that also holds the stale text, with
\* all its translations.
InitStore ==
    /\ prog = "tr"
    /\ trTestMode \in BOOLEAN
    /\ trProgress \in {p \in [TextIds \cup {StaleText} -> ProgressPool] :
                          \A l \in Langs : p[StaleText][l] = "ok"}
    /\ trPhase = "start"
    /\ trTranslations = [i \in TextIds |-> NoTranslations]
    /\ trMissing = [i \in TextIds |-> <<>>]
    /\ trSelected = <<>>
    /\ trBatches = <<>>
    /\ trRequests = <<>>
    /\ GateIdle
    /\ ExtIdle
    /\ cid = [u \in Units |-> "CX"]
    /\ QcIdle /\ G2oIdle /\ BatIdle /\ ApIdle

SpecStore == InitStore /\ [][NextTR]_vars

(***************************************************************************)
(* The retry loops, one invocation at a time:                              *)
(*   g2r_oscal process_single_blob_for_stub, quality_control               *)
(*   get_gemini_enrichment, oscal_components_from_grundschutz              *)
(*   invoke_gemini, g2oscal/main.py process_baustein_pdf and add-practice  *)
(*   generate_with_retry.  A delay is recorded before its jitter is added. *)
(***************************************************************************)
RETRY_ATTEMPTS == 5
INITIAL_BACKOFF_BASE_SECONDS == 5

RtFunctions ==
    {"process_single_blob_for_stub", "get_gemini_enrichment", "invoke_gemini",
     "process_baustein_pdf", "generate_with_retry"}

\* The length of the range the loop runs over.
RtLimit(fn) == IF fn = "generate_with_retry" THEN RETRY_ATTEMPTS ELSE MAX_RETRIES

\* How a pass of the loop can fail.
\*   process_single_blob_for_stub: "retryable" is ResourceExhausted,
\*     InternalServerError, ServiceUnavailable, ValueError (finish reason not
\*     STOP, empty text), JSONDecodeError, ValidationError; "other" is any
\*     other exception.
\*   get_gemini_enrichment: "nonstop" is a finish reason other than STOP and
\*     MAX_TOKENS; "exception" is any exception (API, JSON, schema).
\*   invoke_gemini: "nonstop", "exhausted" (ResourceExhausted), "exception".
\*   process_baustein_pdf: "exception" in either stage.
\*   generate_with_retry: "raises" (the call raises), "nocandidates",
\*     "safety" (finish reason SAFETY or RECITATION), "nonok" (another
\*     finish reason that is not the normal one), "badjson".
RtFailKinds(fn) ==
    IF fn = "process_single_blob_for_stub" THEN {"retryable", "other"}
    ELSE IF fn = "get_gemini_enrichment" THEN {"nonstop", "exception"}
    ELSE IF fn = "invoke_gemini" THEN {"nonstop", "exhausted", "exception"}
    ELSE IF fn = "process_baustein_pdf" THEN {"exception"}
    ELSE {"raises", "nocandidates", "safety", "nonok", "badjson"}

\* generate_with_retry evaluates "finish_reason != FinishReason.OK" for every
\* response that has candidates.  Where the SDK's FinishReason has no member
\* OK the evaluation raises AttributeError, which "except Exception" handles.
RtRaisesAttributeError(fn, kind, hasOK) ==
    /\ fn = "generate_with_retry"
    /\ ~hasOK
    /\ kind \in {"safety", "nonok", "badjson"}

\* Mutant: the backoff of process_single_blob_for_stub does not grow.
G2rBaseDelayFlat(att) == INITIAL_BACKOFF_BASE_SECONDS

\* base_delay = INITIAL_BACKOFF_BASE_SECONDS * (2 ** attempt)
G2rBaseDelay(att) == INITIAL_BACKOFF_BASE_SECONDS * Pow2(att)

\* What the handler of a failed pass does: "return" None, "sleep" and go on,
\* or "continue" with the next pass at once.
RtReaction(fn, kind, att, hasOK) ==
    IF fn = "process_single_blob_for_stub"
    THEN (IF kind = "other" \/ att + 1 = MAX_RETRIES THEN "return" ELSE "sleep")
    ELSE IF fn = "get_gemini_enrichment"
    THEN (IF kind = "nonstop" \/ att < 4 THEN "sleep" ELSE "return")
    ELSE IF fn = "invoke_gemini"
    THEN (IF kind # "nonstop" /\ att < 4 THEN "sleep" ELSE "continue")
    ELSE IF fn = "process_baustein_pdf"
    THEN (IF att + 1 < MAX_RETRIES THEN "sleep" ELSE "return")
    ELSE IF kind = "safety" /\ ~RtRaisesAttributeError(fn, kind, hasOK) THEN "return"
    ELSE IF att + 1 = RETRY_ATTEMPTS THEN "return"
    ELSE "sleep"

\* The argument of the sleep, without the random.uniform term.
RtDelay(fn, kind, att) ==
    IF fn = "process_single_blob_for_stub" THEN G2rBaseDelay(att)
    ELSE IF fn = "invoke_gemini" /\ kind = "exhausted" THEN Pow2(att + 1)
    ELSE IF fn = "process_baustein_pdf" THEN 2 * Pow2(att)
    ELSE Pow2(att)

\* Mutant: the loop runs one pass longer.
RtLoopContinuesOneMore(fn, att) == att + 1 < RtLimit(fn) + 1

\* range(...) has a value after att.
RtLoopContinues(fn, att) == att + 1 < RtLimit(fn)

\* The next pass of the loop or, when the range is used up, the return None
\* that follows the loop.
RtNextPass ==
    IF RtLoopContinues(rtFn, rtAttempt)
    THEN /\ rtPc' = "calling"
         /\ rtAttempt' = rtAttempt + 1
         /\ UNCHANGED rtReturn
    ELSE /\ rtPc' = "returned"
         /\ rtReturn' = "None"
         /\ UNCHANGED rtAttempt

\* A generation call comes back and the pass fails.
RtCallFails(kind) ==
    /\ prog = "retry"
    /\ rtPc \in {"calling", "generating"}
    /\ kind \in RtFailKinds(rtFn)
    /\ rtCalls' = rtCalls + 1
    /\ rtFails' = Append(rtFails, kind)
    /\ LET reaction == RtReaction(rtFn, kind, rtAttempt, rtEnumHasOK)
       IN IF reaction = "return"
          THEN /\ rtPc' = "returned"
               /\ rtReturn' = "None"
               /\ UNCHANGED <<rtAttempt, rtDelays>>
          ELSE IF reaction = "sleep"
          THEN /\ rtPc' = "sleeping"
               /\ rtDelays' = Append(rtDelays, RtDelay(rtFn, kind, rtAttempt))
               /\ UNCHANGED <<rtAttempt, rtReturn>>
          ELSE /\ RtNextPass
               /\ UNCHANGED rtDelays
    /\ UNCHANGED <<rtFn, rtEnumHasOK>>
    /\ UNCHANGED <<gateVars, qcVars, g2oVars, batVars, apVars, trVars, mgVars, runVars, docVars>>

\* The sleep is over.
RtWake ==
    /\ prog = "retry"
    /\ rtPc = "sleeping"
    /\ RtNextPass
    /\ UNCHANGED <<rtFn, rtCalls, rtFails, rtDelays, rtEnumHasOK>>
    /\ UNCHANGED <<gateVars, qcVars, g2oVars, batVars, apVars, trVars, mgVars, runVars, docVars>>

\* process_baustein_pdf: the discovery call yields a valid structure with
\* requirements; the generation call follows.
RtDiscovered ==
    /\ prog = "retry"
    /\ rtFn = "process_baustein_pdf"
    /\ rtPc = "calling"
    /\ rtCalls' = rtCalls + 1
    /\ rtPc' = "generating"
    /\ UNCHANGED <<rtFn, rtAttempt, rtFails, rtDelays, rtReturn, rtEnumHasOK>>
    /\ UNCHANGED <<gateVars, qcVars, g2oVars, batVars, apVars, trVars, mgVars, runVars, docVars>>

\* The call yields a result that passes every test of the pass and is
\* returned (for process_baustein_pdf: discovery without requirements, or
\* the generation call).
RtCallSucceeds ==
    /\ prog = "retry"
    /\ rtPc \in {"calling", "generating"}
    /\ rtFn = "generate_with_retry" => rtEnumHasOK
    /\ rtCalls' = rtCalls + 1
    /\ rtPc' = "returned"
    /\ rtReturn' = "value"
    /\ UNCHANGED <<rtFn, rtAttempt, rtFails, rtDelays, rtEnumHasOK>>
    /\ UNCHANGED <<gateVars, qcVars, g2oVars, batVars, apVars, trVars, mgVars, runVars, docVars>>

RetryFailKinds ==
    {"retryable", "other", "nonstop", "exception", "exhausted",
     "raises", "nocandidates", "safety", "nonok", "badjson"}

InitRetry ==
    /\ prog = "retry"
    /\ rtFn \in RtFunctions
    /\ rtEnumHasOK \in (IF rtFn = "generate_with_retry" THEN BOOLEAN ELSE {FALSE})
    /\ rtPc = "calling"
    /\ rtAttempt = 0
    /\ rtCalls = 0
    /\ rtFails = <<>>
    /\ rtDelays = <<>>
    /\ rtReturn = "pending"
    /\ pc = [u \in Units |-> "start"]
    /\ attempt = [u \in Units |-> 0]
    /\ permits = GateCapacity
    /\ cid = [u \in Units |-> "CX"]
    /\ QcIdle /\ G2oIdle /\ BatIdle /\ ApIdle /\ TrIdle /\ MgIdle /\ RunIdle /\ DocIdle

NextRetry ==
    \/ \E kind \in RetryFailKinds : RtCallFails(kind)
    \/ RtWake
    \/ RtDiscovered
    \/ RtCallSucceeds

SpecRetry == InitRetry /\ [][NextRetry]_vars

\* The failure a response with finish reason MAX_TOKENS counts as:
\*   process_single_blob_for_stub: ValueError (finish reason not STOP);
\*   invoke_gemini: a non-stop finish reason;
\*   process_baustein_pdf: ValueError("... cut off by MAX_TOKENS limit.");
\*   generate_with_retry: a finish reason that is not the normal one;
\*   get_gemini_enrichment: none, MAX_TOKENS passes the finish-reason test;
\*     the pass fails only when the text does not parse or validate.
TruncatedAs(fn) ==
    IF fn = "process_single_blob_for_stub" THEN "retryable"
    ELSE IF fn = "invoke_gemini" THEN "nonstop"
    ELSE IF fn = "generate_with_retry" THEN "nonok"
    ELSE "exception"

\* finish_reason not in ["STOP", "MAX_TOKENS"] is false of MAX_TOKENS.
PassesFinishTest(fn) == fn = "get_gemini_enrichment"

\* A generation call comes back cut off, with finish reason MAX_TOKENS;
\* "parses" tells whether its text is JSON that fits the schema.
RtCallTruncated(parses) ==
    IF PassesFinishTest(rtFn) /\ parses
    THEN /\ prog = "retry"
         /\ rtPc \in {"calling", "generating"}
         /\ rtCalls' = rtCalls + 1
         /\ rtPc' = "returned"
         /\ rtReturn' = "truncated"
         /\ UNCHANGED <<rtFn, rtAttempt, rtFails, rtDelays, rtEnumHasOK>>
         /\ UNCHANGED <<gateVars, qcVars, g2oVars, batVars, apVars, trVars, mgVars, runVars, docVars>>
    ELSE RtCallFails(TruncatedAs(rtFn))

NextTruncated ==
    \/ NextRetry
    \/ \E parses \in BOOLEAN : RtCallTruncated(parses)

SpecTruncated == InitRetry /\ [][NextTruncated]_vars

(***************************************************************************)
(* The field merges: g2oscal merge_results, g2r_oscal                      *)
(* merge_stubs_into_catalog and the prose_qs merge of quality_control.     *)
(* A baustein is [id, body]; ids are numbers ordered as the id strings     *)
(* are; body stands for everything else the baustein holds ("parts" for    *)
(* merge_stubs_into_catalog).                                              *)
(***************************************************************************)
\* Longest list of bausteine of a main group of the base catalog.
MaxBausteine == 2
\* Longest list of results handed to a merge.
MaxResults == 2

MainGroups == <<"APP", "SYS">>
MainIds == {MainGroups[i] : i \in DOMAIN MainGroups}
MgBausteinIds == {1, 2, 3}
\* id 0: the baustein or stub has no "id".
NoId == 0

\* The first index of a baustein with this id, 0 when there is none (idx = -1).
IndexOfId(group, id) ==
    IF \E i \in DOMAIN group : group[i].id = id
    THEN CHOOSE i \in DOMAIN group :
            group[i].id = id /\ \A j \in DOMAIN group : group[j].id = id => i <= j
    ELSE 0

\* Mutant: a result is appended even when its id is already in the group.
PutBausteinAppended(group, b) == Append(group, b)

\* if idx != -1: target["groups"][idx] = baustein
\* else: target.setdefault("groups", []).append(baustein)
PutBaustein(group, b) ==
    IF IndexOfId(group, b.id) # 0
    THEN [group EXCEPT ![IndexOfId(group, b.id)] = b]
    ELSE Append(group, b)

\* list.sort(key=lambda x: x.get('id', '')): stable.
RECURSIVE InsertSorted(_, _)
InsertSorted(sorted, b) ==
    IF sorted = <<>> THEN <<b>>
    ELSE IF sorted[Len(sorted)].id <= b.id THEN Append(sorted, b)
    ELSE Append(InsertSorted(SubSeq(sorted, 1, Len(sorted) - 1), b), sorted[Len(sorted)])

RECURSIVE SortById(_)
SortById(group) ==
    IF group = <<>> THEN <<>>
    ELSE InsertSorted(SortById(SubSeq(group, 1, Len(group) - 1)), group[Len(group)])

\* The loop of merge_results from result i on.
RECURSIVE MergeResultsLoop(_, _, _)
MergeResultsLoop(groups, results, i) ==
    IF i > Len(results) THEN groups
    ELSE LET r == results[i]
         IN IF \/ r.main = None
               \/ ~r.some
               \/ r.id = NoId
               \/ r.main \notin MainIds
            THEN MergeResultsLoop(groups, results, i + 1)
            ELSE MergeResultsLoop(
                    [groups EXCEPT ![r.main] =
                        PutBaustein(groups[r.main], [id |-> r.id, body |-> r.body])],
                    results, i + 1)

merge_results(new_results, base_catalog, now) ==
    [base_catalog EXCEPT
        !.groups = [g \in MainIds |->
                      SortById(MergeResultsLoop(base_catalog.groups, new_results, 1)[g])],
        !.modified = now]

\* baustein_map[id]: the last baustein of the catalog with this id, as
\* <<main group, index>>; <<>> when the id is not in the map.
MapPositions(groups, id) ==
    {pos \in (DOMAIN MainGroups) \X (1..(MaxBausteine + MaxResults)) :
        /\ pos[2] \in DOMAIN groups[MainGroups[pos[1]]]
        /\ groups[MainGroups[pos[1]]][pos[2]].id = id}

baustein_map(groups, id) ==
    LET ps == MapPositions(groups, id)
    IN IF ps = {} THEN <<>>
       ELSE CHOOSE pos \in ps :
               \A q \in ps : q[1] < pos[1] \/ (q[1] = pos[1] /\ q[2] <= pos[2])

\* The loop of merge_stubs_into_catalog from stub i on.
RECURSIVE MergeStubsLoop(_, _, _)
MergeStubsLoop(groups, stubs, i) ==
    IF i > Len(stubs) THEN groups
    ELSE LET stub == stubs[i]
             pos == baustein_map(groups, stub.id)
         IN IF ~stub.some \/ stub.id = NoId \/ pos = <<>>
            THEN MergeStubsLoop(groups, stubs, i + 1)
            ELSE MergeStubsLoop(
                    [groups EXCEPT ![MainGroups[pos[1]]][pos[2]].body = stub.body],
                    stubs, i + 1)

merge_stubs_into_catalog(stubs, base_catalog, now) ==
    [base_catalog EXCEPT !.groups = MergeStubsLoop(base_catalog.groups, stubs, 1),
                         !.modified = now]

\* The bausteine a base catalog may hold, and the results and stubs of a run.
BaseBausteine == {[id |-> i, body |-> "old"] : i \in MgBausteinIds}
ResultPool ==
    {[main |-> None, some |-> FALSE, id |-> NoId, body |-> ""]} \cup
    {[main |-> g, some |-> TRUE, id |-> i, body |-> "new"] :
        g \in MainIds \cup {"NET"}, i \in MgBausteinIds \cup {NoId}}
StubPool ==
    {[main |-> None, some |-> FALSE, id |-> NoId, body |-> ""]} \cup
    {[main |-> None, some |-> TRUE, id |-> i, body |-> b] :
        i \in MgBausteinIds \cup {NoId}, b \in {"new1", "new2"}}
ProsePool == {[part_id |-> p, prose_qs |-> v] : p \in PartIds \cup {"PX"}, v \in {1, 2}}

NoProse == [p \in PartIds |-> 0]
NoGroups == [g \in MainIds |-> <<>>]

RunMergeResults ==
    /\ prog = "merge"
    /\ mgKind = "merge_results"
    /\ mgRuns < 2
    /\ mgCatalog' = merge_results(mgInput, mgCatalog, mgClock + 1)
    /\ mgOnce' = IF mgRuns = 0 THEN mgCatalog' ELSE mgOnce
    /\ mgRuns' = mgRuns + 1
    /\ mgClock' = mgClock + 1
    /\ UNCHANGED <<mgKind, mgInput>>
    /\ UNCHANGED <<gateVars, qcVars, g2oVars, batVars, apVars, trVars, rtVars, runVars, docVars>>

RunMergeStubs ==
    /\ prog = "merge"
    /\ mgKind = "merge_stubs_into_catalog"
    /\ mgRuns < 2
    /\ mgCatalog' = merge_stubs_into_catalog(mgInput, mgCatalog, mgClock + 1)
    /\ mgOnce' = IF mgRuns = 0 THEN mgCatalog' ELSE mgOnce
    /\ mgRuns' = mgRuns + 1
    /\ mgClock' = mgClock + 1
    /\ UNCHANGED <<mgKind, mgInput>>
    /\ UNCHANGED <<gateVars, qcVars, g2oVars, batVars, apVars, trVars, rtVars, runVars, docVars>>

\* process_control: the loop over gemini_result["enriched_prose"].
RunMergeProse ==
    /\ prog = "merge"
    /\ mgKind = "prose_qs"
    /\ mgRuns < 2
    /\ mgCatalog' = [mgCatalog EXCEPT
                        !.qs = MergeProse(mgCatalog.qs, [enriched |-> mgInput])]
    /\ mgOnce' = IF mgRuns = 0 THEN mgCatalog' ELSE mgOnce
    /\ mgRuns' = mgRuns + 1
    /\ UNCHANGED <<mgKind, mgInput, mgClock>>
    /\ UNCHANGED <<gateVars, qcVars, g2oVars, batVars, apVars, trVars, rtVars, runVars, docVars>>

InitMerge ==
    /\ prog = "merge"
    /\ mgKind \in {"merge_results", "merge_stubs_into_catalog", "prose_qs"}
    /\ mgCatalog \in
         (IF mgKind = "prose_qs"
          THEN {[modified |-> 0, groups |-> NoGroups, qs |-> q] : q \in [PartIds -> {0, 9}]}
          ELSE {[modified |-> 0, groups |-> [g \in MainIds |-> IF g = "APP" THEN a ELSE b],
                 qs |-> NoProse] :
                   a \in SeqsUpTo(BaseBausteine, MaxBausteine),
                   b \in SeqsUpTo({[id |-> 1, body |-> "old"]}, 1)})
    /\ mgInput \in
         (IF mgKind = "prose_qs" THEN SeqsUpTo(ProsePool, MaxResults)
          ELSE IF mgKind = "merge_results" THEN SeqsUpTo(ResultPool, MaxResults)
          ELSE SeqsUpTo(StubPool, MaxResults))
    /\ mgOnce = mgCatalog
    /\ mgRuns = 0
    /\ mgClock = 0
    /\ pc = [u \in Units |-> "start"]
    /\ attempt = [u \in Units |-> 0]
    /\ permits = GateCapacity
    /\ cid = [u \in Units |-> "CX"]
    /\ QcIdle /\ G2oIdle /\ BatIdle /\ ApIdle /\ TrIdle /\ RtIdle /\ RunIdle /\ DocIdle

NextMerge == RunMergeResults \/ RunMergeStubs \/ RunMergeProse

SpecMerge == InitMerge /\ [][NextMerge]_vars

(***************************************************************************)
(* main() of g2r_oscal and of g2oscal: once gather() has every result, the *)
(* results are merged into the base catalog and the catalog is uploaded.   *)
(***************************************************************************)
\* The base catalog the runs start from.
GatherBase ==
    [modified |-> 0,
     groups |-> [g \in MainIds |->
                   IF g = "APP" THEN <<[id |-> 1, body |-> "old"], [id |-> 2, body |-> "old"]>>
                   ELSE <<>>],
     qs |-> NoProse]

\* all_stubs / all_results in task order.
AllResults == [u \in Units |-> runResults[u]]

\* successful_results = [res for res in all_results if res and res[0]]
SuccessfulResults(results) == SelectSeq(results, LAMBDA r : r.some /\ r.main # None)

\* Mutant: main() does not wait for the tasks.
GatheredUnchecked == TRUE

\* await asyncio.gather(*tasks) has returned: every task has.
Gathered == \A u \in Units : pc[u] = "done"

\* main(): the merge of the gathered results and the upload of the catalog.
GatherMergeUpload ==
    /\ prog \in GatherJobs
    /\ runPhase = "dispatching"
    /\ Gathered
    /\ mgCatalog' = IF prog = "g2r"
                    THEN merge_stubs_into_catalog(AllResults, mgCatalog, mgClock + 1)
                    ELSE merge_results(SuccessfulResults(AllResults), mgCatalog, mgClock + 1)
    /\ mgClock' = mgClock + 1
    /\ runOutput' = mgCatalog'
    /\ runPhase' = "persisted"
    /\ UNCHANGED <<mgKind, mgInput, mgOnce, mgRuns, runResults>>
    /\ UNCHANGED <<gateVars, qcVars, g2oVars, batVars, apVars, trVars, rtVars, docVars>>

InitGather ==
    /\ prog \in GatherJobs
    /\ GateIdle
    /\ RtIdle
    /\ RunIdle
    /\ DocIdle
    /\ mgKind = None
    /\ mgCatalog = GatherBase
    /\ mgInput = <<>>
    /\ mgOnce = <<>>
    /\ mgRuns = 0
    /\ mgClock = 0
    /\ cid = [u \in Units |-> "CX"]
    /\ QcIdle /\ G2oIdle /\ BatIdle /\ ApIdle /\ TrIdle

NextGather == NextG2R \/ GatherMergeUpload

\* The runs that gather their units: g2r_oscal, g2oscal and translate_oscal.
InitPartial == InitGather \/ InitTR

NextPartial == NextGather \/ NextTR

SpecPartial == InitPartial /\ [][NextPartial]_vars

(***************************************************************************)
(* The jobs whose dispatches leave the gate on several paths:              *)
(* quality_control, oscal_components_from_grundschutz and translate_oscal. *)
(***************************************************************************)
\* The control ids of a quality_control run that takes every way out of
\* process_control: controls that are enriched, a control without prose
\* and a control id that is not in the catalog.
MixedCids ==
    [u \in Units |->
        IF u = 1 THEN CidList[1]
        ELSE CidList[Max(1, Len(CidList) - (NumUnits - u))]]

InitGated ==
    \/ Init /\ prog = "ocg"
    \/ Init /\ prog = "qc" /\ cid = MixedCids
    \/ InitTR

NextGated == NextQC \/ NextOCG \/ NextTR

SpecGated == InitGated /\ [][NextGated]_vars

(***************************************************************************)
(* The JSON document as a tree, and the functions that walk it.  A node is *)
(* [kind, text, items]: kind "str" carries text, "dict" and "list" carry   *)
(* items, each [key, value] (a list entry has the empty key), and "num"    *)
(* stands for every other JSON value (number, boolean, null).  A key and a *)
(* path are sequences of characters; a word without '.', '[', ']' and      *)
(* digits ("prose", "controls", ...) counts as one character.  A text is   *)
(* <<n, language>>: <<n, "de">> is source text n, <<0, "de">> is blank.    *)
(***************************************************************************)
\* Number of distinct non-blank source texts a document may hold.
NumSourceTexts == 2

NoText == <<0, "">>
BlankText == <<0, "de">>
SourceTexts == {<<n, "de">> : n \in 1..NumSourceTexts}

Str(t) == [kind |-> "str", text |-> t, items |-> <<>>]
Scalar == [kind |-> "num", text |-> NoText, items |-> <<>>]
Dict(items) == [kind |-> "dict", text |-> NoText, items |-> items]
List(elems) ==
    [kind |-> "list", text |-> NoText,
     items |-> [i \in DOMAIN elems |-> [key |-> <<>>, value |-> elems[i]]]]

\* The position of key k among the items of a dict, 0 when absent.
KeyIndex(node, k) ==
    IF \E i \in DOMAIN node.items : node.items[i].key = k
    THEN CHOOSE i \in DOMAIN node.items : node.items[i].key = k
    ELSE 0

\* str.isdigit() is true of the decimal digits and also of characters such
\* as the superscript two, which int() does not accept.
DecimalDigits == <<"0", "1", "2", "3", "4", "5", "6", "7", "8", "9">>
SuperscriptTwo == "sup2"
IsDecimal(c) == \E d \in DOMAIN DecimalDigits : DecimalDigits[d] = c
DigitValue(c) == (CHOOSE d \in DOMAIN DecimalDigits : DecimalDigits[d] = c) - 1

\* key.isdigit()
isdigit(key) ==
    /\ key # <<>>
    /\ \A i \in DOMAIN key : IsDecimal(key[i]) \/ key[i] = SuperscriptTwo

\* int(key) raises ValueError on a character that is not a decimal digit.
IntRaises(key) == \E i \in DOMAIN key : ~IsDecimal(key[i])

RECURSIVE int(_)
int(key) ==
    IF key = <<>> THEN 0
    ELSE 10 * int(SubSeq(key, 1, Len(key) - 1)) + DigitValue(key[Len(key)])

\* str(index)
RECURSIVE StrOfInt(_)
StrOfInt(n) ==
    IF n < 10 THEN <<DecimalDigits[n + 1]>>
    ELSE StrOfInt(n \div 10) \o <<DecimalDigits[(n % 10) + 1]>>

\* f"{path}.{key}" if path else key
PathOfKey(path, key) == IF path = <<>> THEN key ELSE path \o <<".">> \o key

\* f"{path}[{index}]"
PathOfIndex(path, index) == path \o <<"[">> \o StrOfInt(index) \o <<"]">>

TranslatableKeys == {<<"prose">>, <<"title">>}

\* isinstance(value, str) and value.strip()
IsText(value) == value.kind = "str" /\ value.text # BlankText

\* extract_translatable_texts(node, path, translation_map): the entries it
\* appends, from item i of the node on.
RECURSIVE extract_translatable_texts(_, _, _)
extract_translatable_texts(node, path, i) ==
    IF node.kind \notin {"dict", "list"} \/ i > Len(node.items) THEN <<>>
    ELSE LET key == node.items[i].key
             value == node.items[i].value
             current_path == IF node.kind = "dict" THEN PathOfKey(path, key)
                             ELSE PathOfIndex(path, i - 1)
             here == IF node.kind = "dict" /\ key \in TranslatableKeys /\ IsText(value)
                     THEN <<[path |-> current_path, original_text |-> value.text]>>
                     ELSE extract_translatable_texts(value, current_path, 1)
         IN here \o extract_translatable_texts(node, path, i + 1)

\* s.split('.')
RECURSIVE Split(_)
Split(s) ==
    IF \A i \in DOMAIN s : s[i] # "." THEN <<s>>
    ELSE LET dot == CHOOSE i \in DOMAIN s : s[i] = "." /\ \A j \in 1..(i - 1) : s[j] # "."
         IN <<SubSeq(s, 1, dot - 1)>> \o Split(SubSeq(s, dot + 1, Len(s)))

\* Mutant: the path is split without turning '[' into '.'.
path_keysUnbracketed(path) ==
    Split(SelectSeq(path, LAMBDA c : c # "]"))

\* item['path'].replace(']', '').replace('[', '.').split('.')
path_keys(path) ==
    LET stripped == SelectSeq(path, LAMBDA c : c # "]")
    IN Split([i \in DOMAIN stripped |-> IF stripped[i] = "[" THEN "." ELSE stripped[i]])

\* current_level[int(key)] if key.isdigit() else current_level[key]:
\* [err, pos, value]; pos is the item the value sits at (0: a character of a
\* string).
Subscript(node, key) ==
    LET fail(e) == [err |-> e, pos |-> 0, value |-> Scalar]
    IN IF isdigit(key)
       THEN IF IntRaises(key) THEN fail("ValueError")
            ELSE IF node.kind = "list"
                 THEN IF int(key) < Len(node.items)
                      THEN [err |-> "none", pos |-> int(key) + 1,
                            value |-> node.items[int(key) + 1].value]
                      ELSE fail("IndexError")
            ELSE IF node.kind = "dict" THEN fail("KeyError")
            ELSE IF node.kind = "str"
                 THEN IF node.text = BlankText THEN fail("IndexError")
                      ELSE [err |-> "none", pos |-> 0, value |-> Str(<<0, "char">>)]
            ELSE fail("TypeError")
       ELSE IF node.kind = "dict"
            THEN IF KeyIndex(node, key) # 0
                 THEN [err |-> "none", pos |-> KeyIndex(node, key),
                       value |-> node.items[KeyIndex(node, key)].value]
                 ELSE fail("KeyError")
            ELSE fail("TypeError")

\* current_level[int(last_key)] = translation, or current_level[last_key] =
\* translation: [err, value], value the node after the assignment.
Assign(node, last_key, translation) ==
    LET fail(e) == [err |-> e, value |-> node]
        entry == [key |-> last_key, value |-> translation]
    IN IF isdigit(last_key)
       THEN IF IntRaises(last_key) THEN fail("ValueError")
            ELSE IF node.kind = "list"
                 THEN IF int(last_key) < Len(node.items)
                      THEN [err |-> "none",
                            value |-> [node EXCEPT !.items[int(last_key) + 1].value = translation]]
                      ELSE fail("IndexError")
            ELSE IF node.kind = "dict"
                 THEN [err |-> "none", value |-> [node EXCEPT !.items = Append(@, entry)]]
            ELSE fail("TypeError")
       ELSE IF node.kind = "dict"
            THEN IF KeyIndex(node, last_key) # 0
                 THEN [err |-> "none",
                       value |-> [node EXCEPT !.items[KeyIndex(node, last_key)].value = translation]]
                 ELSE [err |-> "none", value |-> [node EXCEPT !.items = Append(@, entry)]]
            ELSE fail("TypeError")

\* The walk of reintegrate_translations along keys and the assignment at
\* its end: [err, value], value the node after the assignment.
RECURSIVE Reinsert(_, _, _)
Reinsert(node, keys, translation) ==
    IF Len(keys) = 1 THEN Assign(node, keys[1], translation)
    ELSE LET step == Subscript(node, keys[1])
         IN IF step.err # "none" THEN [err |-> step.err, value |-> node]
            ELSE LET below == Reinsert(step.value, Tail(keys), translation)
                 IN IF below.err # "none" \/ step.pos = 0
                    THEN [err |-> IF below.err # "none" THEN below.err ELSE "TypeError",
                          value |-> node]
                    ELSE [err |-> "none",
                          value |-> [node EXCEPT !.items[step.pos].value = below.value]]

\* item['translations'].get(target_lang_code, item['original_text'])
TranslationText(item, lang) ==
    IF item.translations[lang] = "ABSENT" THEN Str(item.original_text)
    ELSE IF item.translations[lang] = FAILED_MARKER THEN Str(<<0, FAILED_MARKER>>)
    ELSE Str(<<item.original_text[1], lang>>)

CaughtOnReinsert == {"KeyError", "IndexError", "TypeError"}

\* reintegrate_translations from item i of translation_map on: [raised,
\* data]; raised is the exception that leaves the function, or "none".
RECURSIVE ReintegrateLoop(_, _, _, _)
ReintegrateLoop(translated_data, translation_map, lang, i) ==
    IF i > Len(translation_map) THEN [raised |-> "none", data |-> translated_data]
    ELSE LET item == translation_map[i]
             r == Reinsert(translated_data, path_keys(item.path), TranslationText(item, lang))
         IN IF r.err = "none"
            THEN ReintegrateLoop(r.value, translation_map, lang, i + 1)
            ELSE IF r.err \in CaughtOnReinsert
            THEN ReintegrateLoop(translated_data, translation_map, lang, i + 1)
            ELSE [raised |-> r.err, data |-> translated_data]

reintegrate_translations(original_data, translation_map, target_lang_code) ==
    ReintegrateLoop(original_data, translation_map, target_lang_code, 1)

(***************************************************************************)
(* translate_oscal main(): extraction, deduplication, rehydration and the  *)
(* reintegration per language.                                             *)
(***************************************************************************)
\* Mutant: every occurrence becomes a work item of its own.
IsFirstOccurrenceAlways(translation_map, i) == TRUE

\* item['original_text'] not in unique_texts_dict, at item i
IsFirstOccurrence(translation_map, i) ==
    \A j \in 1..(i - 1) : translation_map[j].original_text # translation_map[i].original_text

\* unique_texts_list: one entry per first occurrence, with its index as id.
RECURSIVE UniqueTextsFrom(_, _)
UniqueTextsFrom(translation_map, i) ==
    IF i > Len(translation_map) THEN <<>>
    ELSE (IF IsFirstOccurrence(translation_map, i)
          THEN <<[id |-> i - 1,
                  original_text |-> translation_map[i].original_text,
                  translations |-> NoTranslations]>>
          ELSE <<>>) \o UniqueTextsFrom(translation_map, i + 1)

\* translation_cache[original_text]
TranslationCache(uniques, text) ==
    LET k == CHOOSE k \in DOMAIN uniques : uniques[k].original_text = text
    IN uniques[k].translations

\* The rehydration loop over full_translation_map.
Rehydrated(translation_map, uniques) ==
    [i \in DOMAIN translation_map |->
        IF \E k \in DOMAIN uniques :
              uniques[k].original_text = translation_map[i].original_text
        THEN [translation_map[i] EXCEPT
                 !.translations = TranslationCache(uniques, translation_map[i].original_text)]
        ELSE translation_map[i]]

\* The languages of the final files (TARGET_LANGUAGE_CODES under TEST_MODE).
TreeLangs == TARGET_LANGUAGE_CODES(TRUE)

\* What one unique text may hold per language once the batches are back.
TranslationPool ==
    {t \in [Langs -> {"ABSENT", "ok", FAILED_MARKER}] :
        \A l \in Langs : (\A j \in DOMAIN TreeLangs : TreeLangs[j] # l) => t[l] = "ABSENT"}

\* The final loop of main(): the files saved, in the order of the
\* languages, until reintegrate_translations raises.
RECURSIVE SaveLoop(_, _, _)
SaveLoop(original_data, translation_map, j) ==
    IF j > Len(TreeLangs) THEN [raised |-> "none", saved |-> <<>>]
    ELSE LET r == reintegrate_translations(original_data, translation_map, TreeLangs[j])
         IN IF r.raised # "none" THEN [raised |-> r.raised, saved |-> <<>>]
            ELSE LET rest == SaveLoop(original_data, translation_map, j + 1)
                 IN [raised |-> rest.raised, saved |-> <<r.data>> \o rest.saved]

\* The keys of the documents: the translatable ones, plain ones, one with a
\* dot, one of a decimal digit, one of a digit int() rejects.
TreeKeys ==
    TranslatableKeys \cup {<<"a">>, <<"a", ".", "b">>, <<"1">>, <<SuperscriptTwo>>}

TreeLeaves == {Str(t) : t \in SourceTexts \cup {BlankText}} \cup {Scalar, Dict(<<>>)}

\* The values under the root: a leaf, a dict of one entry, a list of one.
TreeInner ==
    TreeLeaves
    \cup {Dict(<<[key |-> k, value |-> v]>>) : k \in {<<"prose">>, <<"b">>}, v \in TreeLeaves}
    \cup {List(<<v>>) : v \in TreeLeaves}

\* The documents: a dict or a list of one or two entries at the root.
TreePool ==
    {Dict(<<[key |-> k, value |-> v]>>) : k \in TreeKeys, v \in TreeInner}
    \cup {Dict(<<[key |-> ks[1], value |-> v1], [key |-> ks[2], value |-> v2]>>) :
            ks \in {q \in TreeKeys \X TreeKeys : q[1] # q[2]},
            v1 \in TreeInner, v2 \in TreeInner}
    \cup {List(<<v>>) : v \in TreeInner}
    \cup {List(<<v1, v2>>) : v1 \in TreeInner, v2 \in TreeInner}

treeRest == <<gateVars, qcVars, g2oVars, batVars, apVars, trVars, rtVars, mgVars, runVars, lcVars,
             rlVars>>

\* main(): extract_translatable_texts and the deduplication; the run ends
\* here when there is no translatable text.
TreeExtract ==
    /\ prog = "tree"
    /\ treeFn = "translate"
    /\ treePc = "loaded"
    /\ LET found == extract_translatable_texts(treeSrc, <<>>, 1)
       IN /\ treeMap' = [i \in DOMAIN found |->
                            [path |-> found[i].path,
                             original_text |-> found[i].original_text,
                             translations |-> NoTranslations]]
          /\ treeUnique' = UniqueTextsFrom(treeMap', 1)
          /\ treePc' = IF found = <<>> THEN "done" ELSE "unique"
    /\ UNCHANGED <<treeFn, treeSrc, treeOut, treeRaised>>
    /\ UNCHANGED treeRest

\* main(): progress is loaded and the batches are translated; each unique
\* text ends with some translations, failure markers or gaps.
TreeTranslate ==
    /\ prog = "tree"
    /\ treeFn = "translate"
    /\ treePc = "unique"
    /\ \E t \in [DOMAIN treeUnique -> TranslationPool] :
          treeUnique' = [k \in DOMAIN treeUnique |-> [treeUnique[k] EXCEPT !.translations = t[k]]]
    /\ treePc' = "translated"
    /\ UNCHANGED <<treeFn, treeSrc, treeMap, treeOut, treeRaised>>
    /\ UNCHANGED treeRest

\* main(): the rehydration and the final loop over the languages.
TreeReintegrate ==
    /\ prog = "tree"
    /\ treeFn = "translate"
    /\ treePc = "translated"
    /\ treeMap' = Rehydrated(treeMap, treeUnique)
    /\ LET r == SaveLoop(treeSrc, treeMap', 1)
       IN /\ treeOut' = r.saved
          /\ treeRaised' = r.raised
    /\ treePc' = "done"
    /\ UNCHANGED <<treeFn, treeSrc, treeUnique>>
    /\ UNCHANGED treeRest

InitTree ==
    /\ prog = "tree"
    /\ treeFn = "translate"
    /\ treeSrc \in TreePool
    /\ treePc = "loaded"
    /\ treeMap = <<>>
    /\ treeUnique = <<>>
    /\ treeOut = <<>>
    /\ treeRaised = "none"
    /\ GateIdle
    /\ RtIdle /\ MgIdle /\ RunIdle /\ LcIdle /\ RlIdle
    /\ cid = [u \in Units |-> "CX"]
    /\ QcIdle /\ G2oIdle /\ BatIdle /\ ApIdle /\ TrIdle

NextTree == TreeExtract \/ TreeTranslate \/ TreeReintegrate

SpecTree == InitTree /\ [][NextTree]_vars

(***************************************************************************)
(* quality_control: ensure_prose_part_ids on one maturity-level part of a  *)
(* control.  An id or a name is a sequence of characters, <<>> when the    *)
(* key is absent.                                                          *)
(***************************************************************************)
\* Longest "parts" list of a maturity-level part.
MaxContentParts == 2

Absent == <<>>

\* f"{ml_part['id']}-{content_part['name']}"
GeneratedId(ml_id, name) == ml_id \o <<"-">> \o name

\* Mutant: a content part that has an id already is given a new one too.
NeedsIdAlways(content_part) ==
    content_part.prose /\ content_part.name # Absent

\* "prose" in content_part and "id" not in content_part and "name" in content_part
NeedsId(content_part) ==
    content_part.prose /\ content_part.id = Absent /\ content_part.name # Absent

\* ensure_prose_part_ids on the maturity-level parts of the controls of one
\* group: the document after the function.
ensure_prose_part_ids(doc) ==
    IF doc.class # "baustein" \/ doc.name # "maturity-level-description" \/ doc.id = Absent
    THEN doc
    ELSE [doc EXCEPT !.parts =
            [i \in DOMAIN doc.parts |->
                IF NeedsId(doc.parts[i])
                THEN [doc.parts[i] EXCEPT !.id = GeneratedId(doc.id, doc.parts[i].name)]
                ELSE doc.parts[i]]]

ContentPartPool ==
    [id : {Absent, <<"P">>, <<"M", "-", "s">>},
     name : {Absent, <<"s">>, <<"g">>},
     prose : BOOLEAN]

\* One group with one control with one part of parts.
EnsurePool ==
    [class : {"baustein", "layer"},
     name : {"maturity-level-description", "statement"},
     id : {Absent, <<"M">>},
     parts : SeqsUpTo(ContentPartPool, MaxContentParts)]

\* main(): ensure_prose_part_ids(source_catalog)
TreeEnsureIds ==
    /\ prog = "tree"
    /\ treeFn = "ensure_prose_part_ids"
    /\ treePc = "loaded"
    /\ treeOut' = ensure_prose_part_ids(treeSrc)
    /\ treePc' = "done"
    /\ UNCHANGED <<treeFn, treeSrc, treeMap, treeUnique, treeRaised>>
    /\ UNCHANGED treeRest

InitEnsure ==
    /\ prog = "tree"
    /\ treeFn = "ensure_prose_part_ids"
    /\ treeSrc \in EnsurePool
    /\ treePc = "loaded"
    /\ treeMap = <<>>
    /\ treeUnique = <<>>
    /\ treeOut = <<>>
    /\ treeRaised = "none"
    /\ GateIdle
    /\ RtIdle /\ MgIdle /\ RunIdle /\ LcIdle /\ RlIdle
    /\ cid = [u \in Units |-> "CX"]
    /\ QcIdle /\ G2oIdle /\ BatIdle /\ ApIdle /\ TrIdle

(***************************************************************************)
(* The steps of a run that touch ids: the id sanitization, the merge of    *)
(* suggested controls in quality_control, and merge_results of g2oscal.    *)
(***************************************************************************)
\* Every task of the component file works on control C1.
SameCids == [u \in Units |-> CidList[1]]

InitIds ==
    \/ Init /\ prog = "qc" /\ cid = SameCids
    \/ InitMerge /\ mgKind = "merge_results"
    \/ InitEnsure

NextIds == NextQC \/ RunMergeResults \/ TreeEnsureIds

SpecIds == InitIds /\ [][NextIds]_vars

(***************************************************************************)
(* The merges that look their target up: merge_results of g2oscal,         *)
(* merge_stubs_into_catalog of g2r_oscal and reintegrate_translations of   *)
(* translate_oscal.                                                        *)
(***************************************************************************)
InitLookup ==
    \/ InitMerge /\ mgKind \in {"merge_results", "merge_stubs_into_catalog"}
    \/ InitTree

NextLookup == RunMergeResults \/ RunMergeStubs \/ NextTree

SpecLookup == InitLookup /\ [][NextLookup]_vars

(***************************************************************************)
(* The traversals of a catalog tree: find_all_controls of add-practice,    *)
(* find_item_by_id_recursive and find_parent_baustein of quality_control,  *)
(* find_target_bausteine of oscal_components_from_grundschutz and          *)
(* extract_translatable_texts of translate_oscal.  A node the code returns *)
(* is the object itself, so a result names it by its place in the tree.    *)
(***************************************************************************)
Name(s) == Str(<<0, s>>)
Entry(k, v) == [key |-> <<k>>, value |-> v]
NoneNode == [kind |-> "none", text |-> NoText, items |-> <<>>]

TECHNICAL_MAIN_GROUPS == {"APP", "SYS", "IND", "NET", "INF"}

\* key in obj
HasKey(obj, k) == KeyIndex(obj, <<k>>) # 0

\* obj.get(key, default) of a dict
get(obj, k, default) ==
    IF HasKey(obj, k) THEN obj.items[KeyIndex(obj, <<k>>)].value ELSE default

\* What a for loop over a value yields: the entries of a list, the keys of
\* a dict, the characters of a string; any other value raises TypeError.
\* An element is given with its item position, 0 when it is not a node of
\* the tree.
Iterated(value) ==
    CASE value.kind = "list" ->
            [raised |-> "none",
             elems |-> [j \in DOMAIN value.items |-> [at |-> j, node |-> value.items[j].value]]]
      [] value.kind = "dict" ->
            [raised |-> "none",
             elems |-> [j \in DOMAIN value.items |-> [at |-> 0, node |-> Name(value.items[j].key[1])]]]
      [] value.kind = "str" ->
            [raised |-> "none",
             elems |-> IF value.text = NoText THEN <<>> ELSE <<[at |-> 0, node |-> value]>>]
      [] OTHER -> [raised |-> "TypeError", elems |-> <<>>]

\* The places of the entries of obj["controls"] when it is a list.
ControlsOf(obj, place) ==
    IF HasKey(obj, "controls") /\ get(obj, "controls", NoneNode).kind = "list"
    THEN LET c == KeyIndex(obj, <<"controls">>)
         IN [j \in DOMAIN obj.items[c].value.items |-> place \o <<c, j>>]
    ELSE <<>>

\* controls.extend(obj["controls"]) comes before the loop over the values.
ExtendedAfter(own, nested) == nested \o own
Extended(own, nested) == own \o nested

\* find_all_controls: recurse(obj), and its loop from item i on.
RECURSIVE recurse(_, _), recurseItems(_, _, _)
recurseItems(obj, place, i) ==
    IF i > Len(obj.items) THEN <<>>
    ELSE recurse(obj.items[i].value, Append(place, i)) \o recurseItems(obj, place, i + 1)

recurse(obj, place) ==
    CASE obj.kind = "dict" -> Extended(ControlsOf(obj, place), recurseItems(obj, place, 1))
      [] obj.kind = "list" -> recurseItems(obj, place, 1)
      [] OTHER -> <<>>

find_all_controls(catalog) == [raised |-> "none", value |-> recurse(catalog, <<>>)]

\* find_item_by_id_recursive: the place of the first match in a sequence
\* of at most one element, and its loop from item i on.
RECURSIVE find_item_by_id_recursive(_, _, _), FindItemLoop(_, _, _, _)
FindItemLoop(oscal_element, target_id, place, i) ==
    IF i > Len(oscal_element.items) THEN <<>>
    ELSE LET found == find_item_by_id_recursive(oscal_element.items[i].value,
                                                target_id, Append(place, i))
         IN IF found # <<>> THEN found
            ELSE FindItemLoop(oscal_element, target_id, place, i + 1)

find_item_by_id_recursive(oscal_element, target_id, place) ==
    CASE oscal_element.kind = "dict" ->
            IF get(oscal_element, "id", NoneNode) = Name(target_id) THEN <<place>>
            ELSE FindItemLoop(oscal_element, target_id, place, 1)
      [] oscal_element.kind = "list" -> FindItemLoop(oscal_element, target_id, place, 1)
      [] OTHER -> <<>>

\* {c.get("id") for c in element.get("controls", [])}: the loop raises
\* TypeError on a value that cannot be iterated, c.get raises
\* AttributeError on an entry that is not a dict, and the set raises
\* TypeError on an id that cannot be hashed.
control_ids_in_group(element) ==
    LET it == Iterated(get(element, "controls", List(<<>>)))
        ids == [j \in DOMAIN it.elems |-> get(it.elems[j].node, "id", NoneNode)]
    IN IF it.raised # "none" THEN [raised |-> it.raised, ids |-> {}]
       ELSE IF \E j \in DOMAIN it.elems : it.elems[j].node.kind # "dict"
       THEN [raised |-> "AttributeError", ids |-> {}]
       ELSE IF \E j \in DOMAIN ids : ids[j].kind \in {"dict", "list"}
       THEN [raised |-> "TypeError", ids |-> {}]
       ELSE [raised |-> "none", ids |-> {ids[j] : j \in DOMAIN ids}]

\* find_parent_baustein over a catalog tree, and its loop from item i on.
RECURSIVE FindParentBaustein(_, _, _), FindParentLoop(_, _, _, _)
FindParentLoop(element, control_id, place, i) ==
    IF i > Len(element.items) THEN [raised |-> "none", value |-> <<>>]
    ELSE LET found == FindParentBaustein(element.items[i].value, control_id,
                                           Append(place, i))
         IN IF found.raised # "none" \/ found.value # <<>> THEN found
            ELSE FindParentLoop(element, control_id, place, i + 1)

FindParentBaustein(element, control_id, place) ==
    CASE element.kind = "dict" ->
            IF get(element, "class", NoneNode) = Name("baustein") /\ HasKey(element, "controls")
            THEN LET group == control_ids_in_group(element)
                 IN IF group.raised # "none" THEN [raised |-> group.raised, value |-> <<>>]
                    ELSE IF Name(control_id) \in group.ids
                    THEN [raised |-> "none", value |-> <<place>>]
                    ELSE FindParentLoop(element, control_id, place, 1)
            ELSE FindParentLoop(element, control_id, place, 1)
      [] element.kind = "list" -> FindParentLoop(element, control_id, place, 1)
      [] OTHER -> [raised |-> "none", value |-> <<>>]

\* _find_bausteine_recursive: what it appends to found_bausteine, and its
\* loop over group.get("groups", []) from element j on.
RECURSIVE _find_bausteine_recursive(_, _), FindBausteineLoop(_, _, _, _)
FindBausteineLoop(group, place, elems, j) ==
    IF j > Len(elems) THEN [raised |-> "none", value |-> <<>>]
    ELSE LET g == KeyIndex(group, <<"groups">>)
             sub == _find_bausteine_recursive(elems[j].node, place \o <<g, elems[j].at>>)
         IN IF sub.raised # "none" THEN sub
            ELSE LET rest == FindBausteineLoop(group, place, elems, j + 1)
                 IN [raised |-> rest.raised, value |-> sub.value \o rest.value]

_find_bausteine_recursive(group, place) ==
    IF group.kind # "dict" THEN [raised |-> "AttributeError", value |-> <<>>]
    ELSE LET own == IF get(group, "class", NoneNode) = Name("baustein")
                    THEN <<place>> ELSE <<>>
             it == Iterated(get(group, "groups", List(<<>>)))
         IN IF it.raised # "none" THEN [raised |-> it.raised, value |-> <<>>]
            ELSE LET below == FindBausteineLoop(group, place, it.elems, 1)
                 IN [raised |-> below.raised, value |-> own \o below.value]

\* main_group.get("id") in TECHNICAL_MAIN_GROUPS
IsTechnical(main_group) ==
    \E id \in TECHNICAL_MAIN_GROUPS : get(main_group, "id", NoneNode) = Name(id)

\* find_target_bausteine, and its loop over the main groups from j on.
RECURSIVE FindTargetLoop(_, _, _)
FindTargetLoop(place, elems, j) ==
    IF j > Len(elems) THEN [raised |-> "none", value |-> <<>>]
    ELSE LET main_group == elems[j].node
             sub == IF main_group.kind # "dict"
                    THEN [raised |-> "AttributeError", value |-> <<>>]
                    ELSE IF IsTechnical(main_group)
                    THEN _find_bausteine_recursive(main_group, Append(place, elems[j].at))
                    ELSE [raised |-> "none", value |-> <<>>]
         IN IF sub.raised # "none" THEN sub
            ELSE LET rest == FindTargetLoop(place, elems, j + 1)
                 IN [raised |-> rest.raised, value |-> sub.value \o rest.value]

find_target_bausteine(catalog) ==
    IF catalog.kind # "dict" THEN [raised |-> "AttributeError", value |-> <<>>]
    ELSE LET inner == get(catalog, "catalog", Dict(<<>>))
         IN IF inner.kind # "dict" THEN [raised |-> "AttributeError", value |-> <<>>]
            ELSE LET it == Iterated(get(inner, "groups", List(<<>>)))
                 IN IF it.raised # "none" THEN [raised |-> it.raised, value |-> <<>>]
                    ELSE FindTargetLoop(<<KeyIndex(catalog, <<"catalog">>),
                                          KeyIndex(inner, <<"groups">>)>>, it.elems, 1)

\* The ids the lookups are called with.
WalkIds == {"C1", "C2", "B1"}

\* The calls: a traversal and the id it looks for, None when it takes none.
WalkCalls ==
    {[fn |-> f, id |-> None] :
        f \in {"find_all_controls", "find_target_bausteine", "extract_translatable_texts"}}
    \cup {[fn |-> f, id |-> i] :
            f \in {"find_item_by_id_recursive", "find_parent_baustein"}, i \in WalkIds}

Traversed(call, tree) ==
    CASE call.fn = "find_all_controls" -> find_all_controls(tree)
      [] call.fn = "find_target_bausteine" -> find_target_bausteine(tree)
      [] call.fn = "extract_translatable_texts" ->
            [raised |-> "none", value |-> extract_translatable_texts(tree, <<>>, 1)]
      [] call.fn = "find_item_by_id_recursive" ->
            [raised |-> "none", value |-> find_item_by_id_recursive(tree, call.id, <<>>)]
      [] call.fn = "find_parent_baustein" -> FindParentBaustein(tree, call.id, <<>>)

\* The catalogs: controls with and without nested controls, bausteine with
\* and without nested groups, main groups in and out of the technical
\* layers; and the same with a collection of the wrong type or with an
\* entry that is not a mapping.
Control(id) == Dict(<<Entry("id", Name(id)), Entry("title", Str(<<1, "de">>))>>)
ControlWith(id, nested) == Dict(<<Entry("id", Name(id)), Entry("controls", nested)>>)

MalformedCollections ==
    {Scalar, Name("C1"), Control("C1"), List(<<Scalar>>), List(<<Name("C1")>>)}

PlainControls ==
    {List(<<Control(a)>>) : a \in {"C1", "C2"}} \cup {List(<<Control("C1"), Control("C2")>>)}

ControlsPool ==
    PlainControls \cup MalformedCollections
    \cup {List(<<ControlWith("C1", cv)>>) : cv \in {List(<<Control("C2")>>)} \cup MalformedCollections}
    \cup {List(<<ControlWith("C1", List(<<Control("C1")>>)), Control("C2")>>)}

Baustein(id, cv) ==
    Dict(<<Entry("id", Name(id)), Entry("class", Name("baustein")), Entry("controls", cv)>>)
BausteinWith(id, gv, cv) ==
    Dict(<<Entry("id", Name(id)), Entry("class", Name("baustein")),
           Entry("groups", gv), Entry("controls", cv)>>)

BausteinPool ==
    {Baustein("B1", cv) : cv \in ControlsPool}
    \cup {BausteinWith("B1", gv, List(<<Control("C1")>>)) :
            gv \in {List(<<Baustein("B2", List(<<Control("C2")>>))>>)} \cup MalformedCollections}

GroupsPool ==
    {List(<<b>>) : b \in BausteinPool}
    \cup {List(<<b1, b2>>) : b1 \in BausteinPool, b2 \in {Baustein("B2", List(<<Control("C2")>>))}}
    \cup MalformedCollections

MainGroup(id, gv) == Dict(<<Entry("id", Name(id)), Entry("groups", gv)>>)

MainGroupPool ==
    {MainGroup(id, gv) : id \in {"APP", "ISMS"}, gv \in GroupsPool}
    \cup {Dict(<<Entry("id", Name("SYS")), Entry("class", Name("baustein")),
                 Entry("groups", List(<<Baustein("B1", List(<<Control("C1")>>))>>))>>)}

Catalog(main_groups) == Dict(<<Entry("catalog", Dict(<<Entry("groups", main_groups)>>))>>)

WalkPool ==
    {Catalog(List(<<mg>>)) : mg \in MainGroupPool}
    \cup {Catalog(List(<<mg1, mg2>>)) :
            mg1 \in MainGroupPool,
            mg2 \in {MainGroup("NET", List(<<Baustein("B2", List(<<Control("C2")>>))>>)),
                     MainGroup("ORP", List(<<Baustein("B2", List(<<Control("C2")>>))>>))}}

\* A traversal is called on the loaded catalog.
TreeWalk ==
    /\ prog = "tree"
    /\ treeFn = "walk"
    /\ treePc = "loaded"
    /\ \E call \in WalkCalls :
          LET r == Traversed(call, treeSrc)
          IN /\ treeOut' = <<[call |-> call, value |-> r.value]>>
             /\ treeRaised' = r.raised
    /\ treePc' = "walked"
    /\ UNCHANGED <<treeFn, treeSrc, treeMap, treeUnique>>
    /\ UNCHANGED treeRest

\* The same traversal is called once more on the same catalog.
TreeWalkAgain ==
    /\ prog = "tree"
    /\ treeFn = "walk"
    /\ treePc = "walked"
    /\ treeRaised = "none"
    /\ LET r == Traversed(treeOut[1].call, treeSrc)
       IN /\ treeOut' = Append(treeOut, [call |-> treeOut[1].call, value |-> r.value])
          /\ treeRaised' = r.raised
    /\ treePc' = "done"
    /\ UNCHANGED <<treeFn, treeSrc, treeMap, treeUnique>>
    /\ UNCHANGED treeRest

InitWalk ==
    /\ prog = "tree"
    /\ treeFn = "walk"
    /\ treeSrc \in WalkPool
    /\ treePc = "loaded"
    /\ treeMap = <<>>
    /\ treeUnique = <<>>
    /\ treeOut = <<>>
    /\ treeRaised = "none"
    /\ GateIdle
    /\ RtIdle /\ MgIdle /\ RunIdle /\ LcIdle /\ RlIdle
    /\ cid = [u \in Units |-> "CX"]
    /\ QcIdle /\ G2oIdle /\ BatIdle /\ ApIdle /\ TrIdle

NextWalk == TreeWalk \/ TreeWalkAgain

SpecWalk == InitWalk /\ [][NextWalk]_vars

(***************************************************************************)
(* translate_oscal: the proactive rate limiter of translate_batch.  Time   *)
(* is counted in whole seconds; a sleep ends at its wake-up time or later. *)
(***************************************************************************)
\* Seconds of the run that are followed.
MaxElapsed == 7

\* time.time() when the first task enters; last_request_time starts at 0.0.
Epoch == 1000

rlRest == <<prog, pc, attempt, qcVars, g2oVars, batVars, apVars, trVars, rtVars, mgVars,
           runVars, treeVars, lcVars>>

\* A generation request is started now.
RequestStarted(starts, now) ==
    IF starts = <<>> THEN <<now>> ELSE <<starts[Len(starts)], now>>

\* delay_needed = REQUEST_DELAY_SECONDS - (current_time - last_request_time)
delay_needed(now, last) == REQUEST_DELAY_SECONDS - (now - last)

\* translate_batch: the semaphore is entered and the limiter is passed.
\* With delay_needed > 0 the task sleeps; otherwise it sets
\* last_request_time and starts its first request.
RlEnter(t) ==
    /\ prog = "limiter"
    /\ rlTasks[t].pc = "created"
    /\ SemAcquirable
    /\ SemAcquire
    /\ IF delay_needed(rlNow, rlLast) > 0
       THEN /\ rlTasks' = [rlTasks EXCEPT ![t].pc = "throttled",
                                          ![t].wake = rlNow + delay_needed(rlNow, rlLast)]
            /\ UNCHANGED <<rlLast, rlStarts>>
       ELSE /\ rlTasks' = [rlTasks EXCEPT ![t].pc = "requesting"]
            /\ rlLast' = rlNow
            /\ rlStarts' = RequestStarted(rlStarts, rlNow)
    /\ UNCHANGED rlNow
    /\ UNCHANGED rlRest

\* The sleep of the limiter is over: last_request_time is set and the
\* first request is started.
RlWake(t) ==
    /\ prog = "limiter"
    /\ rlTasks[t].pc = "throttled"
    /\ rlNow >= rlTasks[t].wake
    /\ rlTasks' = [rlTasks EXCEPT ![t].pc = "requesting"]
    /\ rlLast' = rlNow
    /\ rlStarts' = RequestStarted(rlStarts, rlNow)
    /\ UNCHANGED <<rlNow, permits>>
    /\ UNCHANGED rlRest

\* A request fails: the task sleeps TrSleep seconds inside the loop.
RlAttemptFails(t, kind) ==
    /\ prog = "limiter"
    /\ rlTasks[t].pc = "requesting"
    /\ rlTasks' = [rlTasks EXCEPT ![t].pc = "backoff",
                                  ![t].wake = rlNow + TrSleep(kind, rlTasks[t].attempt),
                                  ![t].attempt = @ + 1]
    /\ UNCHANGED <<rlNow, rlLast, rlStarts, permits>>
    /\ UNCHANGED rlRest

\* The sleep after a failed attempt is over: the next pass of the loop
\* starts its request, or the loop is used up and the task returns False.
RlNextAttempt(t) ==
    /\ prog = "limiter"
    /\ rlTasks[t].pc = "backoff"
    /\ rlNow >= rlTasks[t].wake
    /\ IF rlTasks[t].attempt < MAX_TRANSLATION_RETRIES
       THEN /\ rlTasks' = [rlTasks EXCEPT ![t].pc = "requesting"]
            /\ rlStarts' = RequestStarted(rlStarts, rlNow)
            /\ UNCHANGED permits
       ELSE /\ rlTasks' = [rlTasks EXCEPT ![t].pc = "returned"]
            /\ SemRelease
            /\ UNCHANGED rlStarts
    /\ UNCHANGED <<rlNow, rlLast>>
    /\ UNCHANGED rlRest

\* A request succeeds: the task saves the progress and returns True.
RlSucceeds(t) ==
    /\ prog = "limiter"
    /\ rlTasks[t].pc = "requesting"
    /\ rlTasks' = [rlTasks EXCEPT ![t].pc = "returned"]
    /\ SemRelease
    /\ UNCHANGED <<rlNow, rlLast, rlStarts>>
    /\ UNCHANGED rlRest

\* A second passes.
RlTick ==
    /\ prog = "limiter"
    /\ rlNow < Epoch + MaxElapsed
    /\ rlNow' = rlNow + 1
    /\ UNCHANGED <<rlLast, rlTasks, rlStarts, permits>>
    /\ UNCHANGED rlRest

InitLimiter ==
    /\ prog = "limiter"
    /\ pc = [u \in Units |-> "start"]
    /\ attempt = [u \in Units |-> 0]
    /\ permits = GEMINI_QPM_LIMIT
    /\ rlNow = Epoch
    /\ rlLast = 0
    /\ rlTasks = [u \in Units |-> [pc |-> "created", wake |-> 0, attempt |-> 0]]
    /\ rlStarts = <<>>
    /\ cid = [u \in Units |-> "CX"]
    /\ QcIdle /\ G2oIdle /\ BatIdle /\ ApIdle /\ TrIdle
    /\ RtIdle /\ MgIdle /\ RunIdle /\ TreeIdle /\ LcIdle

NextLimiter ==
    \/ \E t \in Units : RlEnter(t) \/ RlWake(t) \/ RlNextAttempt(t) \/ RlSucceeds(t)
    \/ \E t \in Units, kind \in TrFailures : RlAttemptFails(t, kind)
    \/ RlTick

SpecLimiter == InitLimiter /\ [][NextLimiter]_vars

(***************************************************************************)
(* quality_control: the merges of one component file in completion order.  *)
(* Every unit's generation result is fixed when the run starts; the units  *)
(* then reach "async with catalog_lock" in any order.  The body of the     *)
(* lock has no await, so one unit's merge is one step.                     *)
(***************************************************************************)
\* A catalog whose first baustein holds two controls with content parts.
SharedControls == [b \in BausteinIds |-> IF b = "B1" THEN <<"C1", "C2">> ELSE <<"C3">>]

\* process_control issues a generation call only for a control that is found,
\* has a parent baustein and has prose to evaluate.
CallsModel(controls, c) ==
    /\ ItemExists(controls, c)
    /\ find_parent_baustein(controls, c) # None
    /\ get_prose_from_control(c) # <<>>

\* The body of "async with catalog_lock" for control c and result r.
MergedInto(controls, qs, c, r) ==
    LET target_baustein == find_parent_baustein(controls, c)
    IN IF target_baustein = None
       THEN [controls |-> controls, qs |-> qs]
       ELSE [controls |-> AppendSuggested(controls, target_baustein, r),
             qs |-> MergeProse(qs, r)]

\* if gemini_result: async with catalog_lock: ... for a unit whose call
\* returned a result.
OrdMerge(t) ==
    /\ prog = "order"
    /\ pc[t] = "start"
    /\ result[t].some
    /\ LockAcquirable
    /\ LET merged == MergedInto(qcControls, proseQs, cid[t], result[t])
       IN /\ qcControls' = merged.controls
          /\ proseQs' = merged.qs
    /\ pc' = [pc EXCEPT ![t] = "done"]
    /\ UNCHANGED <<prog, attempt, permits, cid, result, lockHolder>>
    /\ UNCHANGED otherVars

\* A unit that returned [] before the call, or whose call gave None.
OrdReturnsEmpty(t) ==
    /\ prog = "order"
    /\ pc[t] = "start"
    /\ ~result[t].some
    /\ pc' = [pc EXCEPT ![t] = "done"]
    /\ UNCHANGED <<prog, attempt, permits, cid, result, lockHolder, qcControls, proseQs>>
    /\ UNCHANGED otherVars

InitOrder ==
    /\ prog = "order"
    /\ pc = [u \in Units |-> "start"]
    /\ attempt = [u \in Units |-> 0]
    /\ permits = GateCapacity
    /\ lockHolder = NoUnit
    /\ qcControls \in {InitControls, SharedControls}
    /\ proseQs = [p \in PartIds |-> 0]
    /\ cid \in CidAssignments
    /\ result \in [Units -> UNION {GenResults(u) : u \in Units} \cup {NoResult}]
    /\ \A u \in Units :
          IF CallsModel(qcControls, cid[u])
          THEN result[u] \in GenResults(u) \cup {NoResult}
          ELSE result[u] = NoResult
    /\ G2oIdle /\ BatIdle /\ ApIdle /\ TrIdle
    /\ RtIdle /\ MgIdle /\ RunIdle /\ DocIdle

NextOrder == \E t \in Units : OrdMerge(t) \/ OrdReturnsEmpty(t)

SpecOrder == InitOrder /\ [][NextOrder]_vars

(***************************************************************************)
(* The run of one job from process start to exit: translate_oscal,         *)
(* add-practice and quality_control.  The environment (configuration,      *)
(* source blob, progress blob) is fixed when the process starts.           *)
(***************************************************************************)
\* Largest number of generation units one run dispatches.
MaxCalls == 2

LcJobs == {"translate_oscal", "add-practice", "quality_control"}

\* What the progress blob may be: absent, failing to download, not JSON, a
\* mapping from text to translations, or valid JSON of another shape: a
\* number, null, a list or string that holds no source text or holds one,
\* a mapping with null for a text.
ProgressKinds ==
    {"absent", "unreadable", "notjson", "mapping", "number", "null",
     "sequence_without_text", "sequence_with_text", "mapping_null_value"}

\* load_progress(): the value main() receives.
load_progress(blob) ==
    IF blob \in {"absent", "unreadable", "notjson"} THEN "empty_mapping" ELSE blob

\* main(), lines 498-524, on the value of load_progress(): TRUE when an
\* exception is raised (len() of a number or None, a string index into a
\* list or string, a membership test in None).
ProgressUseRaises(completed_translations) ==
    completed_translations \in {"number", "null", "sequence_with_text", "mapping_null_value"}

\* The exit status after a fatal error of the start-up: sys.exit(1) or
\* sys.exit(message), or a return or a logged exception that leave 0.
ExitOnEnv(job, env) ==
    IF env = "missing_var" THEN 1
    ELSE IF job = "translate_oscal" THEN 1
    ELSE 0

\* The exit status after the source catalog could not be loaded.
ExitOnSource(job) == IF job = "translate_oscal" THEN 1 ELSE 0

lcRest == <<gateVars, qcVars, g2oVars, batVars, apVars, trVars, rtVars, mgVars, runVars, treeVars,
           rlVars>>

LcEnd(status) ==
    /\ lcPc' = "ended"
    /\ lcExit' = status

\* Module import and the head of main(): configuration, clients, local
\* prompt and schema files.
LcConfigure ==
    /\ prog = "run"
    /\ lcPc = "start"
    /\ IF lcEnv = "ok"
       THEN lcPc' = "configured" /\ UNCHANGED lcExit
       ELSE LcEnd(ExitOnEnv(lcJob, lcEnv))
    /\ UNCHANGED <<lcJob, lcEnv, lcSource, lcProgress, lcCalls, lcFailed, lcWritten, lcValid>>
    /\ UNCHANGED lcRest

\* Mutant: a run goes on without its source catalog.
SourceLoadedAlways(source) == TRUE

\* The source blob exists and parses.
SourceLoaded(source) == source = "ok"

\* main(): the source catalog is loaded.
LcLoadSource ==
    /\ prog = "run"
    /\ lcPc = "configured"
    /\ IF SourceLoaded(lcSource)
       THEN /\ lcPc' = IF lcJob = "translate_oscal" THEN "loaded" ELSE "ready"
            /\ UNCHANGED lcExit
       ELSE LcEnd(ExitOnSource(lcJob))
    /\ UNCHANGED <<lcJob, lcEnv, lcSource, lcProgress, lcCalls, lcFailed, lcWritten, lcValid>>
    /\ UNCHANGED lcRest

\* translate_oscal main(): load_progress() and the loop that fills the
\* translations from it; an exception ends main() and is logged by the
\* handler around asyncio.run(main()).
LcLoadProgress ==
    /\ prog = "run"
    /\ lcPc = "loaded"
    /\ IF ProgressUseRaises(load_progress(lcProgress))
       THEN LcEnd(0)
       ELSE lcPc' = "ready" /\ UNCHANGED lcExit
    /\ UNCHANGED <<lcJob, lcEnv, lcSource, lcProgress, lcCalls, lcFailed, lcWritten, lcValid>>
    /\ UNCHANGED lcRest

\* One generation unit (batch, control) is dispatched and returns: with a
\* result or, after its retries, without.  A successful translate_batch
\* calls save_progress, whose upload may fail and is then only logged.
LcDispatch(failed, uploaded) ==
    /\ prog = "run"
    /\ lcPc = "ready"
    /\ lcCalls < MaxCalls
    /\ lcCalls' = lcCalls + 1
    /\ lcFailed' = IF failed THEN lcFailed + 1 ELSE lcFailed
    /\ lcWritten' = IF lcJob = "translate_oscal" /\ ~failed /\ uploaded
                    THEN lcWritten \cup {"checkpoint"}
                    ELSE lcWritten
    /\ UNCHANGED <<lcJob, lcEnv, lcSource, lcProgress, lcPc, lcValid, lcExit>>
    /\ UNCHANGED lcRest

\* gather() has returned.  quality_control then saves the component file
\* when controls were suggested; a failed upload is raised again and ends
\* the process.
LcGather(suggested, uploaded) ==
    /\ prog = "run"
    /\ lcPc = "ready"
    /\ IF lcJob = "quality_control" /\ suggested /\ lcCalls > lcFailed
       THEN IF uploaded
            THEN /\ lcWritten' = lcWritten \cup {"component"}
                 /\ lcPc' = "gathered"
                 /\ UNCHANGED lcExit
            ELSE LcEnd(1) /\ UNCHANGED lcWritten
       ELSE /\ lcPc' = "gathered"
            /\ UNCHANGED <<lcWritten, lcExit>>
    /\ UNCHANGED <<lcJob, lcEnv, lcSource, lcProgress, lcCalls, lcFailed, lcValid>>
    /\ UNCHANGED lcRest

\* Mutant: the catalog is uploaded whatever the validation said.
UploadsWhenInvalidAlways(job) == TRUE

\* The job goes on to the upload after a final validation error:
\* add-practice logs the error; quality_control returns.
UploadsWhenInvalid(job) == job = "add-practice"

\* The end of main(): the final validation (add-practice, quality_control)
\* and the upload of the output.  translate_oscal and add-practice log a
\* failed upload; quality_control raises it.
LcPersist(valid, uploaded) ==
    /\ prog = "run"
    /\ lcPc = "gathered"
    /\ lcValid' = IF lcJob = "translate_oscal" THEN "unknown"
                  ELSE IF valid THEN "valid" ELSE "invalid"
    /\ IF lcValid' = "invalid" /\ ~UploadsWhenInvalid(lcJob)
       THEN LcEnd(0) /\ UNCHANGED lcWritten
       ELSE IF uploaded
            THEN LcEnd(0) /\ lcWritten' = lcWritten \cup {"output"}
            ELSE /\ LcEnd(IF lcJob = "quality_control" THEN 1 ELSE 0)
                 /\ UNCHANGED lcWritten
    /\ UNCHANGED <<lcJob, lcEnv, lcSource, lcProgress, lcCalls, lcFailed>>
    /\ UNCHANGED lcRest

InitRun ==
    /\ prog = "run"
    /\ lcJob \in LcJobs
    /\ lcEnv \in {"ok", "missing_var", "init_failure"}
    /\ lcSource \in {"ok", "absent", "unparsable"}
    /\ lcProgress \in (IF lcJob = "translate_oscal" THEN ProgressKinds ELSE {"absent"})
    /\ lcPc = "start"
    /\ lcCalls = 0
    /\ lcFailed = 0
    /\ lcWritten = {}
    /\ lcValid = "unknown"
    /\ lcExit = Running
    /\ GateIdle
    /\ RtIdle /\ MgIdle /\ RunIdle /\ TreeIdle /\ RlIdle
    /\ cid = [u \in Units |-> "CX"]
    /\ QcIdle /\ G2oIdle /\ BatIdle /\ ApIdle /\ TrIdle

NextRun ==
    \/ LcConfigure
    \/ LcLoadSource
    \/ LcLoadProgress
    \/ \E failed, uploaded \in BOOLEAN : LcDispatch(failed, uploaded)
    \/ \E suggested, uploaded \in BOOLEAN : LcGather(suggested, uploaded)
    \/ \E valid, uploaded \in BOOLEAN : LcPersist(valid, uploaded)

SpecRun == InitRun /\ [][NextRun]_vars

(***************************************************************************)
(* Termination.  translate_batch without the clock: every sleep ends.  The *)
(* asyncio loop runs every task that is ready, the external calls return   *)
(* and the sleeps end, so each step that stays possible is taken.          *)
(***************************************************************************)
\* async with gemini_semaphore: the task is inside and at the limiter.
TbEnter(t) ==
    /\ prog = "batches"
    /\ pc[t] = "start"
    /\ SemAcquirable
    /\ SemAcquire
    /\ pc' = [pc EXCEPT ![t] = "limiter"]
    /\ UNCHANGED <<prog, attempt>>
    /\ UNCHANGED qcVars /\ UNCHANGED otherVars

\* The limiter is passed, after asyncio.sleep(delay_needed) when the delay
\* is positive: the loop starts.
TbLimiterPassed(t) ==
    /\ prog = "batches"
    /\ pc[t] = "limiter"
    /\ pc' = [pc EXCEPT ![t] = "calling"]
    /\ UNCHANGED <<prog, attempt, permits>>
    /\ UNCHANGED qcVars /\ UNCHANGED otherVars

\* generate_content_async returns or raises: return True, or a failed
\* attempt and its sleep.
TbCallReturns(t, ok) ==
    /\ prog = "batches"
    /\ pc[t] = "calling"
    /\ IF ok
       THEN /\ GateFinish(t)
       ELSE /\ pc' = [pc EXCEPT ![t] = "sleeping"]
            /\ attempt' = [attempt EXCEPT ![t] = attempt[t] + 1]
            /\ UNCHANGED permits
    /\ UNCHANGED prog
    /\ UNCHANGED qcVars /\ UNCHANGED otherVars

\* The sleep after a failed attempt is over: the next pass of
\* "for attempt in range(MAX_TRANSLATION_RETRIES)", or return False.
TbWake(t) ==
    /\ prog = "batches"
    /\ pc[t] = "sleeping"
    /\ IF attempt[t] < MAX_TRANSLATION_RETRIES
       THEN /\ pc' = [pc EXCEPT ![t] = "calling"]
            /\ UNCHANGED <<attempt, permits>>
       ELSE /\ GateFinish(t)
    /\ UNCHANGED prog
    /\ UNCHANGED qcVars /\ UNCHANGED otherVars

NextBatches ==
    \/ \E t \in Units : TbEnter(t) \/ TbLimiterPassed(t) \/ TbWake(t)
    \/ \E t \in Units, ok \in BOOLEAN : TbCallReturns(t, ok)

InitBatches ==
    /\ prog = "batches"
    /\ pc = [u \in Units |-> "start"]
    /\ attempt = [u \in Units |-> 0]
    /\ permits = GEMINI_QPM_LIMIT
    /\ ExtIdle
    /\ cid = [u \in Units |-> "CX"]
    /\ QcIdle /\ G2oIdle /\ BatIdle /\ ApIdle /\ TrIdle

\* quality_control with the tasks of one component file: two controls with
\* prose, the others without prose or not in the catalog.
InitLiveQc ==
    /\ Init
    /\ prog = "qc"
    /\ cid[1] = "C1"
    /\ \A u \in Units : u > 2 => cid[u] \in {"C3", "CX"}

InitLive == InitLiveQc \/ InitBatches \/ InitRun

NextLive == NextQC \/ NextBatches \/ NextRun

\* The steps of the task of unit t: process_control or translate_batch.
\* A task is at one place at a time, so at most one of them is possible.
TaskStep(t) ==
    \/ QcStart(t) \/ QcCallReturns(t) \/ QcWake(t)
    \/ QcLockAcquire(t) \/ QcMergeProse(t) \/ QcMergeAppend(t)
    \/ TbEnter(t) \/ TbLimiterPassed(t) \/ TbWake(t)
    \/ \E ok \in BOOLEAN : TbCallReturns(t, ok)

\* Every task that can take a step is run by the loop, and main() goes on.
FairLive ==
    /\ \A t \in Units : WF_vars(TaskStep(t))
    /\ WF_vars(NextRun)

SpecLive == InitLive /\ [][NextLive]_vars /\ FairLive

(***************************************************************************)
(* Properties.                                                             *)
(***************************************************************************)
\* A unit is between acquiring its permit and releasing it.
HoldsPermit(u) ==
    pc[u] \in {"calling", "sleeping", "waitLock", "locked", "appending",
               "processing", "uploading", "discovery", "stage23"}

InLockSection(u) == pc[u] \in {"locked", "appending"}

\* C1: at every instant the number of dispatch units (process_control,
\* process_single_blob_for_stub, process_baustein_concurrently) that have acquired
\* the gate and not yet released it is at most the gate's capacity.
C1_GateBound == Count({u \in Units : HoldsPermit(u)}) <= GateCapacity

\* The gate is full and a further unit is queued behind it.
C1_Witness ==
    /\ Count({u \in Units : HoldsPermit(u)}) = GateCapacity
    /\ permits = 0
    /\ \E u \in Units : pc[u] \in {"start", "running"}

\* C2: in g2oscal/gemini_utils.process_baustein_pdf the number of generation calls
\* in flight at the same instant never exceeds the gate capacity.
C2_CallsWithinGate == CallsInFlight <= GateCapacity

\* C3: at most one process_control task is inside the catalog_lock section at any
\* time, and every step that changes the shared catalog (prose_qs of a part, the
\* controls list of a baustein) is taken by the task that holds catalog_lock.
C3_LockedWrites ==
    /\ [](Count({u \in Units : InLockSection(u)}) <= 1)
    /\ [][(qcControls' # qcControls \/ proseQs' # proseQs) =>
            \E t \in Units : /\ lockHolder = t
                             /\ InLockSection(t)
                             /\ pc'[t] # pc[t]
                             /\ \A u \in Units \ {t} : pc'[u] = pc[u]]_vars

\* One task has written inside the section while another waits for the lock.
C3_Witness ==
    \E t, u \in Units :
        /\ lockHolder = t
        /\ pc[t] = "appending"
        /\ proseQs # [p \in PartIds |-> 0]
        /\ pc[u] = "waitLock"

\* C4: the merge lock is never held across a generation call: whoever holds
\* catalog_lock has its generation result in hand and is inside the merge section,
\* not at a call, a sleep, or a wait.
C4_NoLockAcrossCall ==
    \A u \in Units :
        lockHolder = u => /\ InLockSection(u)
                          /\ result[u].some

\* A task holds the lock while another task's generation call is in flight.
C4_Witness ==
    \E t, u \in Units :
        /\ lockHolder = t
        /\ pc[t] = "locked"
        /\ pc[u] = "calling"

\* C5: append merge of AI-suggested controls is idempotent: applying the same
\* generation result for a control twice leaves the baustein's controls list as
\* applying it once does; no suggested control occurs twice.
C5_NoDuplicateSuggested ==
    \A b \in BausteinIds :
        \A i, j \in DOMAIN qcControls[b] :
            (i # j /\ qcControls[b][i] \in SuggestedIds)
                => qcControls[b][i] # qcControls[b][j]

RECURSIVE Flatten(_)
Flatten(ss) == IF ss = <<>> THEN <<>> ELSE Head(ss) \o Flatten(Tail(ss))

RECURSIVE BatchTokens(_, _)
BatchTokens(kind, b) ==
    IF b = <<>> THEN 0 ELSE ItemTokens(kind, Head(b)) + BatchTokens(kind, Tail(b))

BatchCost(b) == BatchTokens(batKind, b) + PromptOverhead(batKind)

\* C7: the batcher returns no empty batch, and the concatenation of the returned
\* batches in order equals the input sequence (nothing dropped, duplicated or
\* reordered), also for an item whose estimate alone exceeds the limit.
C7_BatchesPartitionInput ==
    batDone =>
        /\ \A k \in DOMAIN batOut : batOut[k] # <<>>
        /\ Flatten(batOut) = ItemsOf(batInput)

\* Several batches were returned, one of them a single oversized item.
C7_Witness ==
    /\ batDone
    /\ Len(batOut) >= 2
    /\ \E k \in DOMAIN batOut :
          /\ Len(batOut[k]) = 1
          /\ BatchCost(batOut[k]) > batLimit

\* C8: every returned batch with two or more items has (sum of its items'
\* estimates + the prompt overhead) at most the token limit; a batch whose cost
\* exceeds the limit is a single-item batch.
C8_MultiItemBatchWithinLimit ==
    batDone =>
        \A k \in DOMAIN batOut :
            /\ Len(batOut[k]) >= 2 => BatchCost(batOut[k]) <= batLimit
            /\ BatchCost(batOut[k]) > batLimit => Len(batOut[k]) = 1

\* A multi-item batch that exactly fills the limit, beside an oversized single item.
C8_Witness ==
    /\ batDone
    /\ \E k \in DOMAIN batOut :
          Len(batOut[k]) >= 2 /\ BatchCost(batOut[k]) = batLimit
    /\ \E k \in DOMAIN batOut :
          Len(batOut[k]) = 1 /\ BatchCost(batOut[k]) > batLimit

PracticeEntries(props) == {k \in DOMAIN props : props[k].name = "practice"}

\* C6: when the add-practice merge updates a control with generated data, the
\* control's props list becomes its previous props whose name is none of practice,
\* effective_on_c, effective_on_i, effective_on_a (in their previous order)
\* followed by one entry for each of those four names carrying the newly generated
\* value; so there is exactly one "practice" entry and it holds the newest value.
C6_ManagedPropsReplaced ==
    [][(apPhase = "generated" /\ apPhase' = "merged") =>
        \A i \in DOMAIN ApControls :
            (i <= Len(apResults) /\ apResults[i].some) =>
                LET c == ApControls[i]
                    g == apResults[i]
                    kept == SelectSeq(apProps[c],
                              LAMBDA p : p.name \notin {"practice", "effective_on_c",
                                                        "effective_on_i", "effective_on_a"})
                    flag(b) == IF b THEN "true" ELSE "false"
                IN /\ Len(apProps'[c]) = Len(kept) + 4
                   /\ SubSeq(apProps'[c], 1, Len(kept)) = kept
                   /\ apProps'[c][Len(kept) + 1].name = "practice"
                   /\ apProps'[c][Len(kept) + 1].value = g.practice
                   /\ apProps'[c][Len(kept) + 2].name = "effective_on_c"
                   /\ apProps'[c][Len(kept) + 2].value = flag(g.effective_on_c)
                   /\ apProps'[c][Len(kept) + 3].name = "effective_on_i"
                   /\ apProps'[c][Len(kept) + 3].value = flag(g.effective_on_i)
                   /\ apProps'[c][Len(kept) + 4].name = "effective_on_a"
                   /\ apProps'[c][Len(kept) + 4].value = flag(g.effective_on_a)
                   /\ Cardinality(PracticeEntries(apProps'[c])) = 1]_vars

\* A second run has replaced the practice written by the first run with another
\* value, on a control that also keeps a prop of its own.
C6_Witness ==
    /\ apPhase = "merged"
    /\ apRuns = 2
    /\ \E i \in DOMAIN ApControls :
          /\ i <= Len(apResults)
          /\ apResults[i].some
          /\ apResults[i].practice = "OPS"
          /\ apProps[ApControls[i]][1].name = "level"
          /\ Len(apProps[ApControls[i]]) = 5
          /\ apProps[ApControls[i]][2].value = "OPS"

\* The texts placed in a batch whose translate_batch call has been created.
DispatchedTexts ==
    UNION {BatchIds(trBatches[trRequests[k].batch]) : k \in DOMAIN trRequests}
BatchedTexts(batches) == UNION {BatchIds(batches[k]) : k \in DOMAIN batches}

\* Some target language is absent from the results map or holds the failure marker.
NeedsTranslation(translations, testMode) ==
    \E j \in DOMAIN TARGET_LANGUAGE_CODES(testMode) :
        translations[TARGET_LANGUAGE_CODES(testMode)[j]] \in {"ABSENT", FAILED_MARKER}

NeedingTexts == {i \in TextIds : NeedsTranslation(trTranslations[i], trTestMode)}

\* Every batch that was created is dispatched before the run ends.
AllBatchesDispatched ==
    /\ \A k \in DOMAIN trRequests : trRequests[k].batch = k
    /\ Len(trRequests) <= Len(trBatches)
    /\ trPhase = "done" => Len(trRequests) = Len(trBatches)

\* C9 as stated: after progress is loaded, a unique text is placed in a dispatched
\* batch if and only if some target language is absent from its results map or
\* holds the failure marker.
C9_DispatchedIffIncomplete ==
    /\ [][(trPhase = "loaded" /\ trPhase' # "loaded") =>
            BatchedTexts(trBatches') = NeedingTexts]_vars
    /\ []AllBatchesDispatched

\* C9, amended: with TEST_MODE off a unique text is placed in a dispatched batch
\* if and only if some target language is absent from its results map or holds
\* the failure marker; with TEST_MODE on only the first max(1, 5%) of those
\* texts are placed in a batch; in either mode a text whose target languages are
\* all translated is never sent.
C9_DispatchedIffIncompleteUnlessTestMode ==
    /\ [][(trPhase = "loaded" /\ trPhase' # "loaded") =>
            /\ ~trTestMode => BatchedTexts(trBatches') = NeedingTexts
            /\ trTestMode =>
                 LET n == Cardinality(NeedingTexts)
                     m == IF n \div 20 > 1 THEN n \div 20 ELSE 1
                 IN /\ Cardinality(BatchedTexts(trBatches')) = (IF n < m THEN n ELSE m)
                    /\ \A i \in BatchedTexts(trBatches'), j \in NeedingTexts :
                          j < i => j \in BatchedTexts(trBatches')
            /\ BatchedTexts(trBatches') \subseteq NeedingTexts]_vars
    /\ []AllBatchesDispatched

\* A run with TEST_MODE off has dispatched a text whose only incomplete
\* language holds the failure marker, and has left a complete text out.
C9_Witness ==
    /\ ~trTestMode
    /\ trPhase = "translating"
    /\ Len(trRequests) = Len(trBatches)
    /\ \A k \in DOMAIN trRequests : trRequests[k].state = "sent"
    /\ \E i \in DispatchedTexts :
          /\ trTranslations[i]["es"] = FAILED_MARKER
          /\ trTranslations[i]["en"] = "ok" /\ trTranslations[i]["fr"] = "ok"
    /\ \E i \in TextIds \ DispatchedTexts : \A l \in Langs : trTranslations[i][l] = "ok"

\* C10: while a request is out, it asks for no language that an item of its
\* batch already holds a completed translation for.
C10_OnlyMissingRequested ==
    \A k \in DOMAIN trRequests :
        trRequests[k].state = "sent" =>
            \A i \in BatchIds(trBatches[trRequests[k].batch]) :
                \A l \in LangSet(trRequests[k].langs) : trTranslations[i][l] # "ok"

\* The texts of the batches whose translate_batch call has returned True.
CompletedTexts(requests) ==
    UNION {BatchIds(trBatches[requests[k].batch]) :
             k \in {j \in DOMAIN requests : requests[j].state = "returned" /\ requests[j].result}}

ReturnsSuccess(k) ==
    /\ k \in DOMAIN trRequests
    /\ trRequests[k].state = "sent"
    /\ trRequests'[k].state = "returned"
    /\ trRequests'[k].result

\* C11 as stated: whenever a batch finishes successfully, the checkpoint written
\* before the dispatch returns success holds the results of that batch's items and
\* of every batch that completed earlier in the run, in any completion order.
C11_CheckpointOnEverySuccess ==
    [][\A k \in 1..NumTexts :
          ReturnsSuccess(k) =>
              \A i \in CompletedTexts(trRequests') : trProgress'[i] = trTranslations'[i]]_vars

\* C11, amended: whenever a batch finishes successfully, save_progress has run
\* before the dispatch returns success; if its upload went through, the
\* checkpoint holds the results of that batch's items and of every batch that
\* completed earlier in the run, in any completion order; if the upload raised,
\* the checkpoint file is left as it was and the dispatch still returns success.
C11_CheckpointOnSuccessfulUpload ==
    [][\A k \in 1..NumTexts :
          ReturnsSuccess(k) =>
              IF trRequests'[k].saved
              THEN \A i \in CompletedTexts(trRequests') : trProgress'[i] = trTranslations'[i]
              ELSE trProgress' = trProgress]_vars

\* Two batches have both returned success and uploaded their checkpoint, and
\* the checkpoint holds the translations of the items of both.
C11_Witness ==
    /\ Len(trRequests) = 2
    /\ \A k \in DOMAIN trRequests :
          trRequests[k].state = "returned" /\ trRequests[k].result /\ trRequests[k].saved
    /\ \A i \in CompletedTexts(trRequests) :
          trProgress[i] = trTranslations[i] /\ trProgress[i]["en"] = "ok"
    /\ Cardinality(CompletedTexts(trRequests)) >= 2

\* C12: a call returns success only on a response that answers as many items
\* as its batch holds; a response answering fewer is rejected and retried.
C12_WrongCountRejected ==
    \A k \in DOMAIN trRequests :
        (trRequests[k].state = "returned" /\ trRequests[k].result) =>
            trRequests[k].answered = Len(trBatches[trRequests[k].batch])

\* C14: once an attempt of translate_batch ends Blocked (no candidates, or a
\* content-safety or recitation stop), the only thing the batch still does is
\* return failure: no further generation call is made for it.
C14_BlockedShortCircuits ==
    [][\A k \in 1..NumTexts :
          (/\ k \in DOMAIN trRequests
           /\ trRequests[k].lastFail = "blocked"
           /\ trRequests'[k] # trRequests[k]) =>
              (trRequests'[k].state = "returned" /\ ~trRequests'[k].result)]_vars

\* C17: when two consecutive attempts of one batch fail with a transient
\* service error, the delay slept after the second is strictly greater than
\* the delay slept after the first.
C17_TransientDelayIncreases ==
    [][\A k \in 1..NumTexts :
          (/\ k \in DOMAIN trRequests
           /\ trRequests[k].lastFail = "transient"
           /\ trRequests'[k].lastFail = "transient"
           /\ trRequests'[k].attempt = trRequests[k].attempt + 1) =>
              trRequests'[k].slept > trRequests[k].slept]_vars

\* C13: in generate_with_retry a response that ends with finish reason SAFETY
\* or RECITATION makes the function return failure at once: it is the last
\* call of the invocation, and on the first attempt the only one.
C13_SafetyReturnsAtOnce ==
    (rtFn = "generate_with_retry") =>
        \A i \in DOMAIN rtFails :
            rtFails[i] = "safety" =>
                /\ i = Len(rtFails)
                /\ rtCalls = i
                /\ rtPc = "returned"
                /\ rtReturn = "None"

AllRetryable(fails) ==
    \A i \in DOMAIN fails : fails[i] \in {"retryable", "nonstop", "exception", "exhausted"}

\* C15: an invocation of process_single_blob_for_stub, get_gemini_enrichment or
\* invoke_gemini never makes more than 5 generation attempts, returns a result
\* only from an attempt that did not fail, and when every attempt fails with a
\* retryable error it makes exactly 5 attempts and then returns the failure value.
C15_ExactlyMaxAttempts ==
    (rtFn \in {"process_single_blob_for_stub", "get_gemini_enrichment", "invoke_gemini"}) =>
        /\ rtCalls <= 5
        /\ (rtPc = "returned" /\ rtReturn = "None" /\ AllRetryable(rtFails)) =>
              (rtCalls = 5 /\ Len(rtFails) = 5)
        /\ rtReturn = "value" => Len(rtFails) = rtCalls - 1
        /\ Len(rtFails) = 5 =>
              (rtPc \in {"sleeping", "returned"} /\ rtReturn # "value")

\* Five retryable failures in a row, and the failure value is returned.
C15_Witness ==
    /\ rtFn \in {"process_single_blob_for_stub", "get_gemini_enrichment", "invoke_gemini"}
    /\ rtPc = "returned"
    /\ rtReturn = "None"
    /\ rtCalls = 5
    /\ AllRetryable(rtFails)

\* C16: in process_single_blob_for_stub and process_baustein_pdf every delay is
\* strictly greater than the delay slept before it, and no delay is slept
\* after the last attempt.
C16_DelaysStrictlyIncrease ==
    (rtFn \in {"process_single_blob_for_stub", "process_baustein_pdf"}) =>
        /\ \A i \in DOMAIN rtDelays : i > 1 => rtDelays[i] > rtDelays[i - 1]
        /\ Len(rtDelays) <= 4
        /\ rtPc = "returned" => Len(rtDelays) <= rtAttempt

\* All attempts have failed: four growing delays were slept, none after the fifth.
C16_Witness ==
    /\ rtFn \in {"process_single_blob_for_stub", "process_baustein_pdf"}
    /\ rtPc = "returned"
    /\ rtReturn = "None"
    /\ Len(rtFails) = 5
    /\ Len(rtDelays) = 4

UniqueIds(group) ==
    \A i, j \in DOMAIN group : group[i].id = group[j].id => i = j

\* C20: applying merge_stubs_into_catalog, merge_results or the prose_qs merge a
\* second time with the same input leaves the catalog, last-modified apart, as
\* the first application left it; and merge_results applied to a base catalog
\* whose main groups hold unique baustein ids leaves unique ids in every main group.
C20_FieldMergeIdempotent ==
    /\ [](mgRuns = 2 =>
            (mgCatalog.groups = mgOnce.groups /\ mgCatalog.qs = mgOnce.qs))
    /\ [][(mgKind = "merge_results" /\ mgRuns' = mgRuns + 1
             /\ \A g \in MainIds : UniqueIds(mgCatalog.groups[g]))
          => \A g \in MainIds : UniqueIds(mgCatalog'.groups[g])]_vars

\* merge_results has been applied twice to results that update one baustein
\* and add another, out of order, to a group that already held one.
C20_Witness ==
    /\ mgKind = "merge_results"
    /\ mgRuns = 2
    /\ mgCatalog.modified # mgOnce.modified
    /\ Len(mgCatalog.groups["APP"]) = 2
    /\ mgCatalog.groups["APP"][1] = [id |-> 1, body |-> "new"]
    /\ mgCatalog.groups["APP"][2] = [id |-> 3, body |-> "new"]
    /\ mgInput[1].id = 3

\* The translate_batch calls that are inside "async with gemini_semaphore".
TrHolders == {k \in DOMAIN trRequests : trRequests[k].holds}

AllDispatchesFinished ==
    IF prog = "tr"
    THEN trPhase = "done" /\ \A k \in DOMAIN trRequests : trRequests[k].state = "returned"
    ELSE \A u \in Units : pc[u] = "done"

\* C19: every dispatch that has acquired a permit gives it back exactly once on
\* every way out: the free permits are always the capacity less the dispatches
\* inside the gate, and once all dispatches have finished they equal the capacity.
C19_PermitsReturned ==
    /\ permits = GateCapacity - Count({u \in Units : HoldsPermit(u)}) - Count(TrHolders)
    /\ AllDispatchesFinished => permits = GateCapacity

\* A quality_control run has finished after at least one merge, and all
\* permits are back.
C19_Witness ==
    /\ prog = "qc"
    /\ \A u \in Units : pc[u] = "done"
    /\ permits = GateCapacity
    /\ qcControls # InitControls

(***************************************************************************)
(* C18: runs in which some units fail after their retries.                 *)
(***************************************************************************)
\* Some unit returned a result for baustein id.
Succeeded(id) == \E u \in Units : runResults[u].some /\ runResults[u].id = id

\* The bausteine with this id in a main group of a catalog.
Occurrences(catalog, g, id) ==
    {i \in DOMAIN catalog.groups[g] : catalog.groups[g][i].id = id}

\* The id is that of a baustein of the base catalog.
InBase(id) == \E g \in MainIds : Occurrences(GatherBase, g, id) # {}

\* The baustein of the base catalog with this id is in the output, once, in
\* its main group, replaced if a unit succeeded for it and as it was if not.
TargetSettled(id) ==
    \A g \in MainIds :
        /\ Cardinality(Occurrences(runOutput, g, id)) = Cardinality(Occurrences(GatherBase, g, id))
        /\ \A i \in Occurrences(runOutput, g, id) :
              runOutput.groups[g][i].body = IF Succeeded(id) THEN "new" ELSE "old"

\* A baustein the base catalog does not have is in the output exactly when
\* a g2oscal unit succeeded for it; g2r_oscal ignores a stub without target.
NewcomerSettled(id) ==
    IF prog = "g2om" /\ Succeeded(id)
    THEN /\ Cardinality(Occurrences(runOutput, "APP", id)) = 1
         /\ \A i \in Occurrences(runOutput, "APP", id) : runOutput.groups["APP"][i].body = "new"
         /\ Occurrences(runOutput, "SYS", id) = {}
    ELSE \A g \in MainIds : Occurrences(runOutput, g, id) = {}

\* translate_oscal: once the batches are planned, a step changes the
\* translations of a text only when a batch holding the text returns True
\* on that step.
TranslationsFromSuccesses ==
    \A i \in TextIds :
        (trPhase = "translating" /\ trTranslations'[i] # trTranslations[i]) =>
            \E k \in DOMAIN trRequests :
                /\ ReturnsSuccess(k)
                /\ i \in BatchIds(trBatches[trRequests[k].batch])

RECURSIVE TextPlaces(_, _, _)
TextPlaces(node, place, i) ==
    IF node.kind \notin {"dict", "list"} \/ i > Len(node.items) THEN <<>>
    ELSE LET value == node.items[i].value
             here == IF /\ node.kind = "dict"
                        /\ node.items[i].key \in TranslatableKeys
                        /\ IsText(value)
                     THEN <<Append(place, i)>>
                     ELSE TextPlaces(value, Append(place, i), 1)
         IN here \o TextPlaces(node, place, i + 1)

\* The node at a place of a document.
RECURSIVE NodeAt(_, _)
NodeAt(node, place) ==
    IF place = <<>> THEN node ELSE NodeAt(node.items[place[1]].value, Tail(place))

\* The document with the node at a place replaced.
RECURSIVE WithNodeAt(_, _, _)
WithNodeAt(node, place, new) ==
    IF place = <<>> THEN new
    ELSE [node EXCEPT !.items[place[1]].value = WithNodeAt(@, Tail(place), new)]

\* The document in which the text at each place from i on is replaced by
\* the translation of the occurrence found there.
RECURSIVE Translated(_, _, _, _, _)
Translated(node, places, translation_map, lang, i) ==
    IF i > Len(places) THEN node
    ELSE Translated(WithNodeAt(node, places[i], TranslationText(translation_map[i], lang)),
                    places, translation_map, lang, i + 1)

\* The deduplication is done and has found texts.
Deduplicated ==
    /\ prog = "tree"
    /\ treeFn = "translate"
    /\ treePc \in {"unique", "translated", "done"}
    /\ treeMap # <<>>

\* The final loop of main() has run on a document that holds texts.
Reintegrated == Deduplicated /\ treePc = "done"

\* One work item per distinct text, in the order of the first occurrences,
\* with the index of the first occurrence as id.
OneItemPerText ==
    /\ \A i \in DOMAIN treeMap :
          Cardinality({k \in DOMAIN treeUnique :
                          treeUnique[k].original_text = treeMap[i].original_text}) = 1
    /\ \A k \in DOMAIN treeUnique :
          /\ treeUnique[k].id + 1 \in DOMAIN treeMap
          /\ treeMap[treeUnique[k].id + 1].original_text = treeUnique[k].original_text
          /\ IsFirstOccurrence(treeMap, treeUnique[k].id + 1)
    /\ \A k1, k2 \in DOMAIN treeUnique : k1 < k2 => treeUnique[k1].id < treeUnique[k2].id

\* In every saved file, two occurrences of one source text hold the same
\* text.
SameTextSameTranslation ==
    LET places == TextPlaces(treeSrc, <<>>, 1)
    IN \A j \in DOMAIN treeOut : \A i1, i2 \in DOMAIN treeMap :
          treeMap[i1].original_text = treeMap[i2].original_text =>
              NodeAt(treeOut[j], places[i1]) = NodeAt(treeOut[j], places[i2])

\* C21: deduplication yields exactly one work item per distinct source text
\* among the extracted occurrences, in first-occurrence order and with
\* pairwise distinct ids, and after reintegration every occurrence of the
\* same source text holds the same translated text in each language output.
C21_DedupAndSameTranslation ==
    /\ Deduplicated => OneItemPerText
    /\ Reintegrated => SameTextSameTranslation

\* C22: every (path, text) pair of the extraction is reinserted at exactly
\* the place the text was extracted from, whatever the keys and the nesting,
\* and nothing else is written: each saved file is the source with the text
\* at each extraction place replaced by its translation.
C22_PathRoundTrip ==
    Reintegrated =>
        /\ Len(treeMap) = Len(TextPlaces(treeSrc, <<>>, 1))
        /\ treeRaised = "none"
        /\ Len(treeOut) = Len(TreeLangs)
        /\ \A j \in DOMAIN treeOut :
              treeOut[j] = Translated(treeSrc, TextPlaces(treeSrc, <<>>, 1), treeMap, TreeLangs[j], 1)

(***************************************************************************)
(* C23: ids stay unique.                                                   *)
(***************************************************************************)
\* No id occurs twice among the control ids of the catalog.
ControlIdsUnique(controls) ==
    \A b1, b2 \in BausteinIds :
        \A i \in DOMAIN controls[b1] : \A j \in DOMAIN controls[b2] :
            controls[b1][i] = controls[b2][j] => (b1 = b2 /\ i = j)

\* No baustein id occurs twice in the catalog, in one main group or in two.
BausteinIdsUnique(catalog) ==
    \A g1, g2 \in MainIds :
        \A i \in DOMAIN catalog.groups[g1] : \A j \in DOMAIN catalog.groups[g2] :
            catalog.groups[g1][i].id = catalog.groups[g2][j].id => (g1 = g2 /\ i = j)

\* No populated id occurs twice among a maturity-level part and its parts.
PartIdsUnique(doc) ==
    /\ \A i, j \in DOMAIN doc.parts :
          (doc.parts[i].id # Absent /\ doc.parts[i].id = doc.parts[j].id) => i = j
    /\ \A i \in DOMAIN doc.parts : doc.id # Absent => doc.parts[i].id # doc.id

\* C23: if every populated id of the input catalog is unique, every
\* populated id is still unique after the id sanitization, after each merge
\* of suggested controls into a baustein and after the replace-by-id merge
\* of generated bausteine.
C23_IdsStayUnique ==
    /\ [](prog = "qc" => ControlIdsUnique(qcControls))
    /\ [][(prog = "merge" /\ BausteinIdsUnique(mgCatalog)) => BausteinIdsUnique(mgCatalog')]_vars
    /\ []((prog = "tree" /\ treeFn = "ensure_prose_part_ids" /\ treePc = "done"
             /\ PartIdsUnique(treeSrc))
          => PartIdsUnique(treeOut))

(***************************************************************************)
(* C24: results whose target is not found.                                 *)
(***************************************************************************)
\* The result names a main group the catalog does not have.
MainGroupUnknown(r) == r.some /\ r.id # NoId /\ r.main # None /\ r.main \notin MainIds

\* The stub names a baustein the catalog does not have.
BausteinUnknown(stub, catalog) ==
    stub.some /\ stub.id # NoId /\ baustein_map(catalog.groups, stub.id) = <<>>

\* The merge step leaves the catalog as the merge of the results with a
\* target would.
MergesAsWithoutUnknown ==
    /\ (mgKind = "merge_results" /\ mgRuns' = mgRuns + 1) =>
          mgCatalog'.groups =
            merge_results(SelectSeq(mgInput, LAMBDA r : ~MainGroupUnknown(r)),
                          mgCatalog, mgClock').groups
    /\ (mgKind = "merge_stubs_into_catalog" /\ mgRuns' = mgRuns + 1) =>
          mgCatalog'.groups =
            merge_stubs_into_catalog(SelectSeq(mgInput, LAMBDA r : ~BausteinUnknown(r, mgCatalog)),
                                     mgCatalog, mgClock').groups

\* The item of the translation map has a path the walk cannot resolve in
\* the source document.
PathUnresolvable(item, lang) ==
    Reinsert(treeSrc, path_keys(item.path), TranslationText(item, lang)).err # "none"

\* Every language file is saved; it is what the reintegration of the items
\* with a resolvable path gives, and the text of each item with an
\* unresolvable path is as it is in the source.
ReintegratesAroundUnresolvable ==
    LET places == TextPlaces(treeSrc, <<>>, 1)
    IN /\ treeRaised = "none"
       /\ Len(treeOut) = Len(TreeLangs)
       /\ \A j \in DOMAIN treeOut :
             /\ treeOut[j] =
                  reintegrate_translations(
                      treeSrc,
                      SelectSeq(treeMap, LAMBDA item : ~PathUnresolvable(item, TreeLangs[j])),
                      TreeLangs[j]).data
             /\ \A i \in DOMAIN treeMap :
                   PathUnresolvable(treeMap[i], TreeLangs[j]) =>
                       NodeAt(treeOut[j], places[i]) = NodeAt(treeSrc, places[i])

\* C24: a result whose target node is not found at merge time (unknown
\* baustein id, unknown main group id, unresolvable reinsertion path) is
\* dropped and leaves the tree unchanged, no error leaves the merge, and all
\* remaining results are merged.
C24_UnfoundResultDropped ==
    /\ [][prog = "merge" => MergesAsWithoutUnknown]_vars
    /\ [](Reintegrated => ReintegratesAroundUnresolvable)

(***************************************************************************)
(* C25-C28: start-up failures, exit status, final validation, progress.    *)
(***************************************************************************)
\* C25: when the source catalog is absent or cannot be parsed, the run ends
\* without dispatching any generation call and without writing any output
\* artifact or checkpoint.
C25_NoWorkWithoutSource ==
    (prog = "run" /\ lcSource # "ok") =>
        /\ lcCalls = 0
        /\ lcWritten = {}
        /\ lcPc \in {"start", "configured", "ended"}

\* A quality_control run has ended at the load of a source catalog that
\* does not parse.
C25_Witness ==
    /\ prog = "run"
    /\ lcJob = "quality_control"
    /\ lcEnv = "ok"
    /\ lcSource = "unparsable"
    /\ lcPc = "ended"

\* C26: a run ends with a nonzero exit status if and only if it hit a fatal
\* configuration or source-load error; a run in which only individual items
\* or batches failed ends with status 0.
C26_ExitStatus ==
    (prog = "run" /\ lcPc = "ended") =>
        (lcExit # 0 <=> (lcEnv # "ok" \/ lcSource # "ok"))

\* C27: in quality_control the final merged catalog is validated after all
\* component processing and uploaded only if it passed: after a validation
\* failure no catalog is written to the output location.
C27_UploadOnlyIfValid ==
    (prog = "run" /\ lcJob = "quality_control") =>
        /\ lcValid # "unknown" => lcPc = "ended"
        /\ "output" \in lcWritten => lcValid = "valid"

\* A quality_control run has processed its components, saved a component
\* file, failed the final validation and ended without the catalog.
C27_Witness ==
    /\ prog = "run"
    /\ lcJob = "quality_control"
    /\ lcCalls > 0
    /\ "component" \in lcWritten
    /\ lcValid = "invalid"
    /\ lcPc = "ended"
    /\ "output" \notin lcWritten

\* C28: whatever the progress blob holds (absent, unreadable, not JSON, or
\* JSON that is not a mapping from text to translations), loading the
\* progress never ends the run: the run goes on to its batches.
C28_ProgressNeverEndsRun ==
    [][(prog = "run" /\ lcPc = "loaded") => lcPc' = "ready"]_vars


(***************************************************************************)
(* C29, C30: the traversals of a catalog tree.                             *)
(***************************************************************************)
\* The places of all nodes of a tree.
RECURSIVE Places(_, _)
Places(node, place) ==
    {place} \cup UNION {Places(node.items[i].value, Append(place, i)) : i \in DOMAIN node.items}

Front(s) == SubSeq(s, 1, Len(s) - 1)
IsProperPrefix(p, q) == Len(p) < Len(q) /\ SubSeq(q, 1, Len(p)) = p
NoDuplicates(s) == \A i, j \in DOMAIN s : s[i] = s[j] => i = j
ParentsFirst(s) == \A i, j \in DOMAIN s : IsProperPrefix(s[i], s[j]) => i < j
SiblingsInOrder(s) ==
    \A i, j \in DOMAIN s :
        (Len(s[i]) = Len(s[j]) /\ s[i] # <<>> /\ Front(s[i]) = Front(s[j])
            /\ s[i][Len(s[i])] < s[j][Len(s[j])]) => i < j

\* The node at the place is an entry of a list held under the key
\* "controls" of a mapping.
InControlsList(tree, place) ==
    /\ Len(place) >= 2
    /\ NodeAt(tree, Front(place)).kind = "list"
    /\ LET holder == NodeAt(tree, Front(Front(place)))
       IN /\ holder.kind = "dict"
          /\ holder.items[place[Len(place) - 1]].key = <<"controls">>

\* The places of a group and of the groups below it, through the lists
\* held under "groups".
RECURSIVE GroupsBelow(_, _)
GroupsBelow(group, place) ==
    {place} \cup
    (IF group.kind = "dict" /\ HasKey(group, "groups")
        /\ get(group, "groups", NoneNode).kind = "list"
     THEN LET g == KeyIndex(group, <<"groups">>)
          IN UNION {GroupsBelow(group.items[g].value.items[k].value, place \o <<g, k>>) :
                        k \in DOMAIN group.items[g].value.items}
     ELSE {})

\* The places of the technical main groups of a catalog.
TechnicalMainGroups(tree) ==
    {p \in GroupsBelow(get(tree, "catalog", NoneNode), <<KeyIndex(tree, <<"catalog">>)>>) :
        /\ Len(p) = 3
        /\ NodeAt(tree, p).kind = "dict"
        /\ IsTechnical(NodeAt(tree, p))}

IsBaustein(node) == node.kind = "dict" /\ get(node, "class", NoneNode) = Name("baustein")

\* The baustein-class groups in a technical main group, the main group
\* included, and those below one.
BausteineIn(tree) ==
    {p \in UNION {GroupsBelow(NodeAt(tree, m), m) : m \in TechnicalMainGroups(tree)} :
        IsBaustein(NodeAt(tree, p))}
BausteineUnder(tree) == {p \in BausteineIn(tree) : Len(p) > 3}

Walked(fn) ==
    /\ treeFn = "walk"
    /\ treePc \in {"walked", "done"}
    /\ treeOut[1].call.fn = fn
    /\ treeRaised = "none"

AllControlsOnceInOrder ==
    Walked("find_all_controls") =>
        LET v == treeOut[1].value
        IN /\ NoDuplicates(v)
           /\ SeqToSet(v) = {p \in Places(treeSrc, <<>>) : InControlsList(treeSrc, p)}
           /\ ParentsFirst(v)
           /\ SiblingsInOrder(v)

TargetBausteineOnceInOrder ==
    Walked("find_target_bausteine") =>
        LET v == treeOut[1].value
        IN /\ NoDuplicates(v)
           /\ BausteineUnder(treeSrc) \subseteq SeqToSet(v)
           /\ SeqToSet(v) \subseteq BausteineIn(treeSrc)
           /\ ParentsFirst(v)

SecondCallSame ==
    (treeFn = "walk" /\ treePc = "done" /\ treeRaised = "none") =>
        treeOut[2].value = treeOut[1].value

C30_TraversalNeverRaises ==
    (treeFn = "walk" /\ treePc \in {"walked", "done"}) => treeRaised = "none"

(***************************************************************************)
(* C31: the pairing of controls and generated data in add-practice.        *)
(***************************************************************************)
\* The four managed props a control ends with after an update.
ManagedTail(props) == SubSeq(props, Len(props) - 3, Len(props))

\* The control carries the class and the props of some entry that was
\* generated for it in this run.
HoldsOwnData(c) ==
    \E i \in DOMAIN apResults :
        /\ apResults[i].some
        /\ apResults[i].for = c
        /\ apClass[c] = apResults[i].class
        /\ Len(apProps[c]) >= 4
        /\ ManagedTail(apProps[c]) = NewProps(apResults[i])

\* C31: a control the merge updates receives the class and props that were
\* generated for that same control, whatever number of entries each batch
\* returned.
C31_OwnDataOnly ==
    (prog = "ap" /\ apPhase = "merged") =>
        \A k \in DOMAIN ApControls :
            ApUpdated(apResults, k) => HoldsOwnData(ApControls[k])

(***************************************************************************)
(* C32: successful translations and the failure marker.                    *)
(***************************************************************************)
\* C32: a language of a unique text that holds a successful translation
\* is not set to the failure marker by a later step of the run.
C32_SuccessNotOverwritten ==
    [][\A i \in TextIds : \A l \in Langs :
          trTranslations[i][l] = "ok" => trTranslations'[i][l] # FAILED_MARKER]_vars

(***************************************************************************)
(* C33: the checkpoints of a run keep what the store held.                 *)
(***************************************************************************)
\* C33: every text of the progress file and every completed translation
\* of it is still in the file after a later checkpoint of the run.
C33_CheckpointKeepsCompleted ==
    [][\A i \in DOMAIN trProgress : \A l \in Langs :
          trProgress[i][l] = "ok" =>
              (i \in DOMAIN trProgress' /\ trProgress'[i][l] = "ok")]_vars

(***************************************************************************)
(* C34: what the merge of one control's result may change.                 *)
(***************************************************************************)
\* C34: a step that changes prose_qs changes it only on parts of the
\* control whose result is merged, the parts sent in prose_to_evaluate,
\* and a step that changes a controls list changes only the list of that
\* control's parent baustein, by appending to it.
C34_MergeStaysInControl ==
    [][/\ \A p \in PartIds :
            proseQs'[p] # proseQs[p] =>
                \E t \in Units : /\ lockHolder = t
                                 /\ p \in SeqToSet(get_prose_from_control(cid[t]))
       /\ \A b \in BausteinIds :
            qcControls'[b] # qcControls[b] =>
                \E t \in Units : /\ lockHolder = t
                                 /\ b = find_parent_baustein(qcControls, cid[t])
                                 /\ Len(qcControls'[b]) >= Len(qcControls[b])
                                 /\ SubSeq(qcControls'[b], 1, Len(qcControls[b])) = qcControls[b]]_vars

(***************************************************************************)
(* C35: the failure marker and the output trees.                           *)
(***************************************************************************)
\* C35: no field of an output tree written for a language holds the
\* failure marker.
C35_NoMarkerInOutput ==
    (prog = "tree" /\ treeFn = "translate" /\ treePc = "done") =>
        \A j \in DOMAIN treeOut :
            \A p \in Places(treeOut[j], <<>>) :
                NodeAt(treeOut[j], p).text # <<0, FAILED_MARKER>>

(***************************************************************************)
(* C36, C37: blocked prompts and truncated responses in the retry loops.   *)
(***************************************************************************)
\* C36: once a call of generate_with_retry came back without candidates
\* (a blocked prompt), no further generation call is made for the unit.
C36_BlockedPromptNotRetried ==
    [][(rtFn = "generate_with_retry" /\ "nocandidates" \in SeqToSet(rtFails)) =>
            rtCalls' = rtCalls]_vars

\* C37: a unit never returns a value taken from a response that was cut
\* off with finish reason MAX_TOKENS.
C37_TruncatedNeverAccepted == prog = "retry" => rtReturn # "truncated"

(***************************************************************************)
(* C38: the spacing of the generation requests of translate_oscal.         *)
(***************************************************************************)
\* C38: two generation requests never start less than
\* REQUEST_DELAY_SECONDS apart.
C38_RequestsSpaced ==
    (prog = "limiter" /\ Len(rlStarts) = 2) =>
        rlStarts[2] - rlStarts[1] >= REQUEST_DELAY_SECONDS

(***************************************************************************)
(* C39: the merged catalog and the order in which the units complete.      *)
(***************************************************************************)
\* The catalog of the run before any merge: no suggested control in it.
BeforeMerges(controls) ==
    [b \in BausteinIds |-> SelectSeq(controls[b], LAMBDA c : c \notin SuggestedIds)]

\* The catalog after the units t..NumUnits merged one after the other in
\* task order.
RECURSIVE MergedInTaskOrder(_, _, _)
MergedInTaskOrder(controls, qs, t) ==
    IF t > NumUnits THEN [controls |-> controls, qs |-> qs]
    ELSE IF ~result[t].some THEN MergedInTaskOrder(controls, qs, t + 1)
    ELSE LET merged == MergedInto(controls, qs, cid[t], result[t])
         IN MergedInTaskOrder(merged.controls, merged.qs, t + 1)

AllMerged == prog = "order" /\ \A u \in Units : pc[u] = "done"

\* C39: whatever the order in which the units completed, the merged catalog
\* is the one the same results give when merged in task order.
C39_CompletionOrderIrrelevant ==
    AllMerged =>
        LET expected == MergedInTaskOrder(BeforeMerges(qcControls),
                                          [p \in PartIds |-> 0], 1)
        IN /\ qcControls = expected.controls
           /\ proseQs = expected.qs

(***************************************************************************)
(* C40: termination of the units and of the run.                           *)
(***************************************************************************)
UnitJobs == {"qc", "batches"}

\* No unit goes beyond the attempts of its loop.
AttemptsBounded ==
    /\ prog = "qc" => \A u \in Units : attempt[u] < MAX_RETRIES
    /\ prog = "batches" => \A u \in Units : attempt[u] <= MAX_TRANSLATION_RETRIES

\* Unit u waits for a permit of the gate or for the merge lock.
Waiting(u) == prog \in UnitJobs /\ pc[u] \in {"start", "waitLock"}

\* The gate or the lock has let unit u in.
Admitted(u) == pc[u] \notin {"start", "waitLock"}

\* Every unit has finished, or the process has left main() (after the final
\* persist step or by a fatal abort).
Terminated ==
    IF prog = "run" THEN lcExit # Running ELSE \A u \in Units : pc[u] = "done"

\* C40: no unit exceeds the attempts of its loop, a unit waiting for the gate
\* or for the merge lock gets it, every unit finishes, and the run reaches
\* its exit after the final persist step or by a fatal abort.
C40_RunTerminates ==
    /\ []AttemptsBounded
    /\ \A u \in Units : Waiting(u) ~> Admitted(u)
    /\ <>Terminated

\* A unit holds the merge lock, a second one waits for it, and a third one
\* waits for the gate the two have used up.
C40_Witness ==
    /\ prog = "qc"
    /\ permits = 0
    /\ \E u, v, w \in Units :
          /\ pc[u] = "locked"
          /\ pc[v] = "waitLock"
          /\ pc[w] = "start"
====
